---- MODULE Spec2Model ----
(***************************************************************************)
(* Sum-check protocol over a prime field: the low-degree-extension         *)
(* evaluators (univariate, multilinear, memoized multilinear) and the      *)
(* Prover / Verifier classes of lib/sum-check, as state machines.          *)
(*                                                                         *)
(* Arrays are 0-based in the source and 1-based here: the source's a[i]    *)
(* is a[i + 1] below.  A call either returns a value, Ok(x), or throws,    *)
(* Throw(e).                                                               *)
(***************************************************************************)
EXTENDS Integers, Sequences, FiniteSets, TLC

\* ------------------------------------------------------------------ bounds
\* longest value table / message
MaxLen == 4
\* table entries and evaluation points are the field elements 0..MaxElem
MaxElem == 2
\* largest number of variables v of a protocol session
MaxV == 2
\* the entries of a session's table g are the field elements 0..MaxEntry
MaxEntry == 1
\* the challenge source draws from 0..RandomRange-1 (the source draws from
\* 0..10^11-1, a small range of the field)
RandomRange == 3

VARIABLES
  order,      \* the prime order of Field (o1js): fixed for a run
  input,      \* evaluator runs: the value table or message under evaluation
  call,       \* evaluator runs: the last evaluator call and what it returned
  prover,     \* the Prover object: [v, g, r]
  verifier,   \* the Verifier object: [v, proposedSum, polynomials, r]
  last,       \* the last method call on prover / verifier and its outcome
  run,        \* the locals of runner(): [pc, sum, r_j, g_j, j, corrupted]
  peer        \* a second object driven next to the first one, if there is one

vars == <<order, input, call, prover, verifier, last, run, peer>>

\* ------------------------------------------------------------- results
Ok(x) == [ok |-> TRUE, val |-> x, err |-> "none"]

Throw(e) == [ok |-> FALSE, val |-> 0, err |-> e]

\* -------------------------------------------------- helpers on numbers
Min(a, b) == IF a < b THEN a ELSE b

RECURSIVE Pow2(_)
Pow2(n) == IF n = 0 THEN 1 ELSE 2 * Pow2(n - 1)

IsPrime(n) == n >= 2 /\ \A k \in 2..(n - 1) : n % k # 0

\* the least prime above n (one exists below 2n + 2)
LeastPrimeAbove(n) ==
  CHOOSE p \in (n + 1)..(2 * n + 2) :
    IsPrime(p) /\ \A q \in (n + 1)..(p - 1) : ~IsPrime(q)

\* Math.ceil(Math.log2(n)) for n >= 1
CeilLog2(n) == CHOOSE d \in 0..n : Pow2(d) >= n /\ \A e \in 0..(d - 1) : Pow2(e) < n

Reverse(s) == [i \in 1..Len(s) |-> s[Len(s) + 1 - i]]

\* ------------------------------------------------ Field (o1js) arithmetic
\* Field(n): the canonical representative of the integer n
Field(n) == n % order

FieldAdd(a, b) == (a + b) % order

FieldSub(a, b) == (a + order - b) % order

FieldMul(a, b) == (a * b) % order

FieldInv(b) == CHOOSE x \in 1..(order - 1) : (b * x) % order = 1

\* a.div(b): throws when b is the additive identity
FieldDiv(a, b) ==
  IF b = 0 THEN Throw("DivisionByZero") ELSE Ok(FieldMul(a, FieldInv(b)))

\* a.lessThan(n).toBoolean(), n a number converted to a field element
FieldLessThan(a, n) == a < Field(n)

\* a.equals(b): a Bool object wrapping the comparison
FieldEquals(a, b) == [isBoolObject |-> TRUE, value |-> (a = b)]

\* b.toBoolean() of a Bool object
ToBoolean(b) == b.value

\* JavaScript's !x applied to an object: every object is truthy, so !x is false
JsNotOfObject(b) == FALSE

\* ------------------------------------------------------------- util.ts
\* asciiToNumber: a character is modelled by its char code
asciiToNumber(char) ==
  IF char < 0 \/ char > 127 THEN Throw("NotAscii") ELSE Ok(char)

\* Array.from({length: bitLength}, (_, index) => (num >> index) & 1): the
\* binary digits of num, least significant first
ShiftedBits(num, bitLength) ==
  [index \in 1..bitLength |-> (num \div Pow2(index - 1)) % 2]

\* mutant: the digits are not reversed (least significant bit first)
toBinary_NotReversed(num, bitLength) == ShiftedBits(num, bitLength)

toBinary(num, bitLength) == Reverse(ShiftedBits(num, bitLength))

getRequiredBits(numberOfValues) ==
  IF numberOfValues < 1 THEN Throw("NotPositive") ELSE Ok(CeilLog2(numberOfValues))

generateBinaryVertices(d) == [i \in 1..Pow2(d) |-> toBinary(i - 1, d)]

\* ------------------------------------------- univariate-lagrange.ts (LDE)
RECURSIVE UnivariateBasisLoop(_, _, _, _, _)
\* the for loop of getUnivariateLagrangeBasis from iteration j on
UnivariateBasisLoop(index, nodes, x, j, accumulator) ==
  IF j >= Len(nodes) THEN Ok(accumulator)
  ELSE IF j = index THEN UnivariateBasisLoop(index, nodes, x, j + 1, accumulator)
  ELSE LET numerator == FieldSub(x, nodes[j + 1])
           denominator == FieldSub(nodes[index + 1], nodes[j + 1])
           term == FieldDiv(numerator, denominator)
       IN IF ~term.ok THEN term
          ELSE UnivariateBasisLoop(index, nodes, x, j + 1,
                                   FieldMul(accumulator, term.val))

\* mutant: the accumulator of the product starts at 0
getUnivariateLagrangeBasis_StartsAtZero(index, nodes, x) ==
  UnivariateBasisLoop(index, nodes, x, 0, Field(0))

getUnivariateLagrangeBasis(index, nodes, x) ==
  UnivariateBasisLoop(index, nodes, x, 0, Field(1))

RECURSIVE UnivariateLDELoop(_, _, _, _, _)
\* the for loop of getUnivariateLDE from iteration i on
UnivariateLDELoop(values, nodes, r, i, accumulator) ==
  IF i >= Len(nodes) THEN Ok(accumulator)
  ELSE LET basis == getUnivariateLagrangeBasis(i, nodes, r)
       IN IF ~basis.ok THEN basis
          ELSE UnivariateLDELoop(values, nodes, r, i + 1,
                 FieldAdd(accumulator, FieldMul(values[i + 1], basis.val)))

\* mutant: the fast path reads the entry after the one r names
getUnivariateLDE_FastPathOffByOne(values, r) ==
  IF Len(values) = 0 THEN Throw("EmptyValues")
  ELSE IF FieldLessThan(r, Len(values))
    THEN Ok(values[((r + 1) % Len(values)) + 1])
  ELSE LET nodes == [index \in 1..Len(values) |-> Field(index - 1)]
       IN UnivariateLDELoop(values, nodes, r, 0, Field(0))

\* mutant: every node is used twice (0, 0, 1, 1, ...)
getUnivariateLDE_RepeatedNodes(values, r) ==
  IF Len(values) = 0 THEN Throw("EmptyValues")
  ELSE IF FieldLessThan(r, Len(values)) THEN Ok(values[r + 1])
  ELSE LET nodes == [index \in 1..Len(values) |-> Field((index - 1) \div 2)]
       IN UnivariateLDELoop(values, nodes, r, 0, Field(0))

\* an undefined array argument is modelled by the empty one: !values and
\* values.length === 0 take the same branch
getUnivariateLDE(values, r) ==
  IF Len(values) = 0 THEN Throw("EmptyValues")
  ELSE IF FieldLessThan(r, Len(values)) THEN Ok(values[r + 1])
  ELSE LET nodes == [index \in 1..Len(values) |-> Field(index - 1)]
       IN UnivariateLDELoop(values, nodes, r, 0, Field(0))

\* ------------------------------- message-extensions/univariate-lagrange.ts
\* Field(asciiToNumber(char))
CharToField(char) ==
  LET code == asciiToNumber(char)
  IN IF code.ok THEN Ok(Field(code.val)) ELSE code

RECURSIVE LagrangeBasisLoop(_, _, _, _, _)
\* the for loop of getLagrangeBasis from iteration j on
LagrangeBasisLoop(index, interpolatingSet, x, j, accumulator) ==
  IF j >= Len(interpolatingSet) THEN Ok(accumulator)
  ELSE IF j = index
    THEN LagrangeBasisLoop(index, interpolatingSet, x, j + 1, accumulator)
  ELSE LET term == FieldDiv(FieldSub(x, interpolatingSet[j + 1]),
                            FieldSub(interpolatingSet[index + 1],
                                     interpolatingSet[j + 1]))
       IN IF ~term.ok THEN term
          ELSE LagrangeBasisLoop(index, interpolatingSet, x, j + 1,
                                 FieldMul(accumulator, term.val))

\* mutant: the basis polynomial of the node counted from the end
getLagrangeBasis_FromEnd(index, interpolatingSet, x) ==
  LagrangeBasisLoop(Len(interpolatingSet) - 1 - index, interpolatingSet, x, 0,
                    Field(1))

getLagrangeBasis(index, interpolatingSet, x) ==
  LagrangeBasisLoop(index, interpolatingSet, x, 0, Field(1))

RECURSIVE UnivariateLagrangeLoop(_, _, _, _, _)
\* the for loop of getUnivariateLagrange from iteration i on
UnivariateLagrangeLoop(message, interpolatingSet, r, i, result) ==
  IF i >= Len(interpolatingSet) THEN Ok(result)
  ELSE LET coeff == CharToField(message[i + 1])
           lagrangeBasis == getLagrangeBasis(i, interpolatingSet, r)
       IN IF ~coeff.ok THEN coeff
          ELSE IF ~lagrangeBasis.ok THEN lagrangeBasis
          ELSE UnivariateLagrangeLoop(message, interpolatingSet, r, i + 1,
                 FieldAdd(result, FieldMul(coeff.val, lagrangeBasis.val)))

\* mutant: the empty message is not refused
getUnivariateLagrange_NoEmptyCheck(message, r) ==
  LET n == Len(message)
  IN IF FieldLessThan(r, n) THEN CharToField(message[r + 1])
     ELSE LET interpolatingSet == [index \in 1..n |-> Field(index - 1)]
          IN UnivariateLagrangeLoop(message, interpolatingSet, r, 0, Field(0))

getUnivariateLagrange(message, r) ==
  LET n == Len(message)
  IN IF n = 0 THEN Throw("EmptyMessage")
     ELSE IF FieldLessThan(r, n) THEN CharToField(message[r + 1])
     ELSE LET interpolatingSet == [index \in 1..n |-> Field(index - 1)]
          IN UnivariateLagrangeLoop(message, interpolatingSet, r, 0, Field(0))

\* ------------------------------------- message-extensions/reed-solomon.ts
RECURSIVE ReedSolomonLoop(_, _, _, _, _)
\* the for loop of getReedSolomon from iteration i on
ReedSolomonLoop(message, r, i, result, currentPower) ==
  IF i >= Len(message) THEN Ok(result)
  ELSE LET coefficient == CharToField(message[i + 1])
       IN IF ~coefficient.ok THEN coefficient
          ELSE ReedSolomonLoop(message, r, i + 1,
                 FieldAdd(result, FieldMul(coefficient.val, currentPower)),
                 FieldMul(currentPower, r))

\* mutant: the characters are taken as coefficients from the last one on
getReedSolomon_FromEnd(message, r) ==
  IF Len(message) = 0 THEN Throw("EmptyMessage")
  ELSE ReedSolomonLoop(Reverse(message), r, 0, Field(0), Field(1))

getReedSolomon(message, r) ==
  IF Len(message) = 0 THEN Throw("EmptyMessage")
  ELSE ReedSolomonLoop(message, r, 0, Field(0), Field(1))

\* ------------------------------------------- multilinear-lagrange.ts (LDE)
RECURSIVE MultilinearBasisLoop(_, _, _, _)
\* the for loop of getMultilinearLagrangeBasis from iteration j on
MultilinearBasisLoop(vertex, x, j, accumulator) ==
  IF j >= Len(vertex) THEN accumulator
  ELSE LET univariateBasis ==
             FieldAdd(FieldMul(vertex[j + 1], x[j + 1]),
                      FieldMul(FieldSub(Field(1), vertex[j + 1]),
                               FieldSub(Field(1), x[j + 1])))
       IN MultilinearBasisLoop(vertex, x, j + 1,
                               FieldMul(accumulator, univariateBasis))

getMultilinearLagrangeBasis(vertex, x) ==
  MultilinearBasisLoop(vertex, x, 0, Field(1))

RECURSIVE MultilinearLDELoop(_, _, _, _, _, _)
\* the for loop of getMultilinearLDE over the nodes from iteration i on
MultilinearLDELoop(values, r, dimension, numNodes, i, accumulator) ==
  IF i >= numNodes THEN accumulator
  ELSE LET vertex == [k \in 1..dimension |-> Field(toBinary(i, dimension)[k])]
           term == IF i < Len(values)
                     THEN FieldMul(values[i + 1],
                                   getMultilinearLagrangeBasis(vertex, r))
                     ELSE Field(0)
       IN MultilinearLDELoop(values, r, dimension, numNodes, i + 1,
                             FieldAdd(accumulator, term))

\* mutant: only a point with too few coordinates is refused
getMultilinearLDE_AcceptsLongPoint(values, r) ==
  IF Len(values) = 0 THEN Throw("EmptyValues")
  ELSE LET dimension == CeilLog2(Len(values))
       IN IF Len(r) < dimension THEN Throw("DimensionMismatch")
          ELSE LET nodes == generateBinaryVertices(dimension)
               IN Ok(MultilinearLDELoop(values, r, dimension, Len(nodes), 0,
                                        Field(0)))

getMultilinearLDE(values, r) ==
  IF Len(values) = 0 THEN Throw("EmptyValues")
  ELSE LET dimension == CeilLog2(Len(values))
       IN IF Len(r) # dimension THEN Throw("DimensionMismatch")
          ELSE LET nodes == generateBinaryVertices(dimension)
               IN Ok(MultilinearLDELoop(values, r, dimension, Len(nodes), 0,
                                        Field(0)))

\* ------------------------------- message-extensions/multilinear-lagrange.ts
RECURSIVE MultilinearBasisAtLoop(_, _, _, _)
\* the for loop of getMultilinearLagrangeBasisAt from iteration i on
MultilinearBasisAtLoop(w, x, i, accumulator) ==
  IF i >= Len(w) THEN accumulator
  ELSE MultilinearBasisAtLoop(w, x, i + 1,
         FieldMul(accumulator,
                  FieldAdd(FieldMul(x[i + 1], Field(w[i + 1])),
                           FieldMul(FieldSub(Field(1), x[i + 1]),
                                    Field(1 - w[i + 1])))))

getMultilinearLagrangeBasisAt(w, interpolatingSet, x) ==
  IF Len(w) # Len(interpolatingSet[1]) \/ Len(x) # Len(interpolatingSet[1])
    THEN Throw("DimensionMismatch")
    ELSE Ok(MultilinearBasisAtLoop(w, x, 0, Field(1)))

RECURSIVE MultilinearLagrangeLoop(_, _, _, _, _)
\* the for loop of getMultilinearLagrange from iteration i on
MultilinearLagrangeLoop(message, interpolatingSet, x, i, accumulator) ==
  IF i >= Len(interpolatingSet) THEN Ok(accumulator)
  ELSE LET coefficient == IF i >= Len(message) THEN Ok(Field(0))
                          ELSE CharToField(message[i + 1])
           lagrangeBasisAtInput ==
             getMultilinearLagrangeBasisAt(interpolatingSet[i + 1],
                                           interpolatingSet, x)
       IN IF ~coefficient.ok THEN coefficient
          ELSE IF ~lagrangeBasisAtInput.ok THEN lagrangeBasisAtInput
          ELSE MultilinearLagrangeLoop(message, interpolatingSet, x, i + 1,
                 FieldAdd(accumulator,
                          FieldMul(coefficient.val, lagrangeBasisAtInput.val)))

getMultilinearLagrange(message, x) ==
  LET n == Len(message)
  IN IF n = 0 THEN Throw("EmptyMessage")
     ELSE LET d == CeilLog2(n)
              interpolatingSet == generateBinaryVertices(d)
          IN MultilinearLagrangeLoop(message, interpolatingSet, x, 0, Field(0))

\* -------------------------- message-extensions/fast-multilinear-lagrange.ts
RECURSIVE MemoizedInnerLoop(_, _, _, _)
\* the inner for loop of memoizedLagrangeBasis (over prevRound) from j on
MemoizedInnerLoop(prevRound, xi, j, tmp) ==
  IF j >= Len(prevRound) THEN tmp
  ELSE MemoizedInnerLoop(prevRound, xi, j + 1,
         tmp \o <<FieldMul(prevRound[j + 1], FieldSub(Field(1), xi)),
                  FieldMul(prevRound[j + 1], xi)>>)

RECURSIVE MemoizedOuterLoop(_, _, _)
\* the outer for loop of memoizedLagrangeBasis (over the dimensions) from i on
MemoizedOuterLoop(x, i, prevRound) ==
  IF i >= Len(x) THEN prevRound
  ELSE MemoizedOuterLoop(x, i + 1, MemoizedInnerLoop(prevRound, x[i + 1], 0, <<>>))

\* mutant: the first round holds the entry of x_0 = 1 before that of x_0 = 0
memoizedLagrangeBasis_FirstRoundSwapped(x) ==
  IF Len(x) = 0 THEN Throw("TypeError")
  ELSE Ok(MemoizedOuterLoop(x, 1, <<x[1], FieldSub(Field(1), x[1])>>))

\* x[0] is undefined for the empty vector, and Field(1).sub(undefined) throws
\* a TypeError
memoizedLagrangeBasis(x) ==
  IF Len(x) = 0 THEN Throw("TypeError")
  ELSE Ok(MemoizedOuterLoop(x, 1, <<FieldSub(Field(1), x[1]), x[1]>>))

RECURSIVE MemoizedDotLoop(_, _, _, _, _)
\* the dot-product loop of getMemoizedMultilinearLagrange from i on
MemoizedDotLoop(v1, v2, numVertices, i, accumulator) ==
  IF i >= numVertices THEN accumulator
  ELSE MemoizedDotLoop(v1, v2, numVertices, i + 1,
                       FieldAdd(accumulator, FieldMul(v1[i + 1], v2[i + 1])))

getMemoizedMultilinearLagrange(message, r) ==
  IF Len(message) = 0 THEN Throw("EmptyMessage")
  ELSE LET d == getRequiredBits(Len(message)).val
       IN IF Len(r) # d THEN Throw("DimensionMismatch")
          ELSE LET interpolatingSet == generateBinaryVertices(d)
                   coded == [index \in 1..Len(message) |->
                               CharToField(message[index])]
                   v1 == [index \in 1..Len(interpolatingSet) |->
                            IF index - 1 >= Len(message) THEN Field(0)
                            ELSE coded[index].val]
                   v2 == memoizedLagrangeBasis(r)
               IN IF \E index \in 1..Len(message) : ~coded[index].ok
                    THEN Throw("NotAscii")
                  ELSE IF ~v2.ok THEN v2
                  ELSE Ok(MemoizedDotLoop(v1, v2.val, Len(interpolatingSet), 0,
                                          Field(0)))

\* ------------------------------------------- sum-check-prover.ts: Prover
RECURSIVE ToString2(_)
\* i.toString(2): the binary digits of i as characters, no leading zeros
ToString2(i) ==
  IF i < 2 THEN <<IF i = 1 THEN "1" ELSE "0">>
  ELSE Append(ToString2(i \div 2), IF i % 2 = 1 THEN "1" ELSE "0")

\* s.padStart(targetLength): pads on the left with spaces
PadStart(s, targetLength) ==
  IF Len(s) >= targetLength THEN s
  ELSE [k \in 1..targetLength |->
          IF k <= targetLength - Len(s) THEN " "
          ELSE s[k - (targetLength - Len(s))]]

\* Field(e) for a one-character string e: BigInt("1") is 1, BigInt("0") and
\* BigInt(" ") are 0
FieldOfString(e) == IF e = "1" THEN Field(1) ELSE Field(0)

\* mutant: a table of exactly 2^v entries is refused as well
NewProver_RefusesFullTable(g, v) ==
  IF Len(g) >= Pow2(v) THEN Throw("InvalidArity")
  ELSE Ok([v |-> v, g |-> g, r |-> <<>>])

\* new Prover(g, v)
NewProver(g, v) ==
  IF Len(g) > Pow2(v) THEN Throw("InvalidArity")
  ELSE Ok([v |-> v, g |-> g, r |-> <<>>])

getBinaryVectors(dimension) ==
  IF dimension = 0 THEN <<>>
  ELSE [k \in 1..Pow2(dimension) |->
          LET chars == PadStart(ToString2(k - 1), dimension)
          IN [e \in 1..Len(chars) |-> FieldOfString(chars[e])]]

RECURSIVE ProposedSumLoop(_, _, _, _)
\* the for loop of getProposedSum from iteration i on
ProposedSumLoop(g, binaryVectors, i, accumulator) ==
  IF i >= Len(binaryVectors) THEN Ok(accumulator)
  ELSE LET term == getMultilinearLDE(g, binaryVectors[i + 1])
       IN IF ~term.ok THEN term
          ELSE ProposedSumLoop(g, binaryVectors, i + 1,
                               FieldAdd(accumulator, term.val))

\* mutant: the summation starts at the second vertex
getProposedSum_SkipsFirstVertex(p) ==
  ProposedSumLoop(p.g, getBinaryVectors(p.v), 1, Field(0))

getProposedSum(p) ==
  ProposedSumLoop(p.g, getBinaryVectors(p.v), 0, Field(0))

RECURSIVE RoundSumLoop(_, _, _, _, _, _)
\* binaryVectors.forEach of getRoundJPolynomial for x_j = bit, from vector i on
RoundSumLoop(g, r, bit, binaryVectors, i, sum) ==
  IF i >= Len(binaryVectors) THEN Ok(sum)
  ELSE LET term == getMultilinearLDE(g, r \o <<Field(bit)>> \o binaryVectors[i + 1])
       IN IF ~term.ok THEN term
          ELSE RoundSumLoop(g, r, bit, binaryVectors, i + 1,
                            FieldAdd(sum, term.val))

\* mutant: the round sum without the branch for the final round, where there
\* are no binary vectors to sum over
RoundSum_NoFinalRoundBranch(g, r, bit, binaryVectors) ==
  RoundSumLoop(g, r, bit, binaryVectors, 0, Field(0))

\* sum0 (bit = 0) or sum1 (bit = 1) of getRoundJPolynomial
RoundSum(g, r, bit, binaryVectors) ==
  IF Len(binaryVectors) > 0
    THEN RoundSumLoop(g, r, bit, binaryVectors, 0, Field(0))
    ELSE LET term == getMultilinearLDE(g, r \o <<Field(bit)>>)
         IN IF ~term.ok THEN term ELSE Ok(FieldAdd(Field(0), term.val))

\* mutant: the challenge is put in front of the fixed ones
getRoundJPolynomial_FixesInFront(p, r_prev) ==
  LET r == IF r_prev # <<>> THEN <<r_prev[1]>> \o p.r ELSE p.r
      q == [p EXCEPT !.r = r]
      j == Len(r) + 1
  IN IF Len(r) >= p.v
       THEN [obj |-> q, res |-> Throw("RoundOverflow")]
     ELSE IF j = 1 /\ r_prev # <<>>
       THEN [obj |-> q, res |-> Throw("UnexpectedChallenge")]
     ELSE IF j # 1 /\ r_prev = <<>>
       THEN [obj |-> q, res |-> Throw("MissingChallenge")]
     ELSE LET binaryVectors == getBinaryVectors(p.v - j)
              sum0 == RoundSum(p.g, r, 0, binaryVectors)
              sum1 == RoundSum(p.g, r, 1, binaryVectors)
          IN IF ~sum0.ok THEN [obj |-> q, res |-> sum0]
             ELSE IF ~sum1.ok THEN [obj |-> q, res |-> sum1]
             ELSE [obj |-> q, res |-> Ok(<<sum0.val, sum1.val>>)]

\* getRoundJPolynomial(r_prev?): r_prev is <<>> (undefined) or <<x>>.
\* Returns the Prover after the call and the outcome.
getRoundJPolynomial(p, r_prev) ==
  LET r == IF r_prev # <<>> THEN Append(p.r, r_prev[1]) ELSE p.r
      q == [p EXCEPT !.r = r]
      j == Len(r) + 1
  IN IF Len(r) >= p.v
       THEN [obj |-> q, res |-> Throw("RoundOverflow")]
     ELSE IF j = 1 /\ r_prev # <<>>
       THEN [obj |-> q, res |-> Throw("UnexpectedChallenge")]
     ELSE IF j # 1 /\ r_prev = <<>>
       THEN [obj |-> q, res |-> Throw("MissingChallenge")]
     ELSE LET binaryVectors == getBinaryVectors(p.v - j)
              sum0 == RoundSum(p.g, r, 0, binaryVectors)
              sum1 == RoundSum(p.g, r, 1, binaryVectors)
          IN IF ~sum0.ok THEN [obj |-> q, res |-> sum0]
             ELSE IF ~sum1.ok THEN [obj |-> q, res |-> sum1]
             ELSE [obj |-> q, res |-> Ok(<<sum0.val, sum1.val>>)]

\* --------------------------------------- sum-check-iterative.ts: Verifier
\* new Verifier(proposedSum, v)
NewVerifier(proposedSum, v) ==
  [v |-> v, proposedSum |-> proposedSum, polynomials |-> <<>>, r |-> <<>>]

\* a[i] of a JavaScript array of arrays, undefined (modelled <<>>) out of range
ArrayAt(a, i) == IF i >= 0 /\ i < Len(a) THEN a[i + 1] ELSE <<>>

\* a[i] of a JavaScript array of field elements; out of range it is
\* undefined, which is only ever passed to a call that throws before reading it
ElemAt(a, i) == IF i >= 0 /\ i < Len(a) THEN a[i + 1] ELSE 0

\* getRandomFieldElement(): Field(Math.floor(Math.random() * 100000000000))
Challenges == 0..(Min(RandomRange, order) - 1)

\* g_j(0) + g_j(1) as verifyRoundJPolynomial computes it
RoundSumOf(g_j) ==
  LET at0 == getUnivariateLDE(g_j, Field(0))
      at1 == getUnivariateLDE(g_j, Field(1))
  IN IF ~at0.ok THEN at0
     ELSE IF ~at1.ok THEN at1
     ELSE Ok(FieldAdd(at0.val, at1.val))

\* mutant: the comparison of g_j(0) + g_j(1) with the expected value is not
\* acted on
verifyRoundJPolynomial_NoSumCheck(ver, g_j, r_j) ==
  LET j == Len(ver.r) + 1
      sum == RoundSumOf(g_j)
  IN IF j > ver.v THEN [obj |-> ver, res |-> Throw("TooManyRounds")]
     ELSE IF Len(g_j) > 2 THEN [obj |-> ver, res |-> Throw("Degree")]
     ELSE IF ~sum.ok THEN [obj |-> ver, res |-> sum]
     ELSE [obj |-> [ver EXCEPT !.r = Append(ver.r, r_j),
                               !.polynomials = Append(ver.polynomials, g_j)],
           res |-> Ok(r_j)]

\* mutant: every round compares g_j(0) + g_j(1) with the proposed sum
verifyRoundJPolynomial_AlwaysProposedSum(ver, g_j, r_j) ==
  LET j == Len(ver.r) + 1
      sum == RoundSumOf(g_j)
  IN IF j > ver.v THEN [obj |-> ver, res |-> Throw("TooManyRounds")]
     ELSE IF Len(g_j) > 2 THEN [obj |-> ver, res |-> Throw("Degree")]
     ELSE IF ~sum.ok THEN [obj |-> ver, res |-> sum]
     ELSE IF ~ToBoolean(FieldEquals(sum.val, ver.proposedSum))
       THEN [obj |-> ver, res |-> Throw("SumMismatch")]
     ELSE [obj |-> [ver EXCEPT !.r = Append(ver.r, r_j),
                               !.polynomials = Append(ver.polynomials, g_j)],
           res |-> Ok(r_j)]

\* mutant: the number of entries of g_j is not checked
verifyRoundJPolynomial_NoDegreeCheck(ver, g_j, r_j) ==
  LET j == Len(ver.r) + 1
      sum == RoundSumOf(g_j)
      prevPolynomialAtPrevR ==
        getUnivariateLDE(ArrayAt(ver.polynomials, j - 2), ElemAt(ver.r, j - 2))
      accepted == [obj |-> [ver EXCEPT !.r = Append(ver.r, r_j),
                                       !.polynomials = Append(ver.polynomials, g_j)],
                   res |-> Ok(r_j)]
  IN IF j > ver.v THEN [obj |-> ver, res |-> Throw("TooManyRounds")]
     ELSE IF ~sum.ok THEN [obj |-> ver, res |-> sum]
     ELSE IF j = 1
       THEN IF ~ToBoolean(FieldEquals(sum.val, ver.proposedSum))
              THEN [obj |-> ver, res |-> Throw("SumMismatch")]
              ELSE accepted
     ELSE IF ~prevPolynomialAtPrevR.ok
       THEN [obj |-> ver, res |-> prevPolynomialAtPrevR]
     ELSE IF ~ToBoolean(FieldEquals(sum.val, prevPolynomialAtPrevR.val))
       THEN [obj |-> ver, res |-> Throw("SumMismatch")]
     ELSE accepted

\* mutant: one round more than v is let through
verifyRoundJPolynomial_RoundsOffByOne(ver, g_j, r_j) ==
  LET j == Len(ver.r) + 1
      sum == RoundSumOf(g_j)
      prevPolynomialAtPrevR ==
        getUnivariateLDE(ArrayAt(ver.polynomials, j - 2), ElemAt(ver.r, j - 2))
      accepted == [obj |-> [ver EXCEPT !.r = Append(ver.r, r_j),
                                       !.polynomials = Append(ver.polynomials, g_j)],
                   res |-> Ok(r_j)]
  IN IF j > ver.v + 1 THEN [obj |-> ver, res |-> Throw("TooManyRounds")]
     ELSE IF Len(g_j) > 2 THEN [obj |-> ver, res |-> Throw("Degree")]
     ELSE IF ~sum.ok THEN [obj |-> ver, res |-> sum]
     ELSE IF j = 1
       THEN IF ~ToBoolean(FieldEquals(sum.val, ver.proposedSum))
              THEN [obj |-> ver, res |-> Throw("SumMismatch")]
              ELSE accepted
     ELSE IF ~prevPolynomialAtPrevR.ok
       THEN [obj |-> ver, res |-> prevPolynomialAtPrevR]
     ELSE IF ~ToBoolean(FieldEquals(sum.val, prevPolynomialAtPrevR.val))
       THEN [obj |-> ver, res |-> Throw("SumMismatch")]
     ELSE accepted

\* mutant: an accepted round stores the challenge but not the polynomial
verifyRoundJPolynomial_ForgetsPolynomial(ver, g_j, r_j) ==
  LET j == Len(ver.r) + 1
      sum == RoundSumOf(g_j)
      prevPolynomialAtPrevR ==
        getUnivariateLDE(ArrayAt(ver.polynomials, j - 2), ElemAt(ver.r, j - 2))
      accepted == [obj |-> [ver EXCEPT !.r = Append(ver.r, r_j)],
                   res |-> Ok(r_j)]
  IN IF j > ver.v THEN [obj |-> ver, res |-> Throw("TooManyRounds")]
     ELSE IF Len(g_j) > 2 THEN [obj |-> ver, res |-> Throw("Degree")]
     ELSE IF ~sum.ok THEN [obj |-> ver, res |-> sum]
     ELSE IF j = 1
       THEN IF ~ToBoolean(FieldEquals(sum.val, ver.proposedSum))
              THEN [obj |-> ver, res |-> Throw("SumMismatch")]
              ELSE accepted
     ELSE IF ~prevPolynomialAtPrevR.ok
       THEN [obj |-> ver, res |-> prevPolynomialAtPrevR]
     ELSE IF ~ToBoolean(FieldEquals(sum.val, prevPolynomialAtPrevR.val))
       THEN [obj |-> ver, res |-> Throw("SumMismatch")]
     ELSE accepted

\* mutant: the previous polynomial is evaluated at 0 instead of at the
\* previous challenge
verifyRoundJPolynomial_PrevAtZero(ver, g_j, r_j) ==
  LET j == Len(ver.r) + 1
      sum == RoundSumOf(g_j)
      prevPolynomialAtPrevR ==
        getUnivariateLDE(ArrayAt(ver.polynomials, j - 2), Field(0))
      accepted == [obj |-> [ver EXCEPT !.r = Append(ver.r, r_j),
                                       !.polynomials = Append(ver.polynomials, g_j)],
                   res |-> Ok(r_j)]
  IN IF j > ver.v THEN [obj |-> ver, res |-> Throw("TooManyRounds")]
     ELSE IF Len(g_j) > 2 THEN [obj |-> ver, res |-> Throw("Degree")]
     ELSE IF ~sum.ok THEN [obj |-> ver, res |-> sum]
     ELSE IF j = 1
       THEN IF ~ToBoolean(FieldEquals(sum.val, ver.proposedSum))
              THEN [obj |-> ver, res |-> Throw("SumMismatch")]
              ELSE accepted
     ELSE IF ~prevPolynomialAtPrevR.ok
       THEN [obj |-> ver, res |-> prevPolynomialAtPrevR]
     ELSE IF ~ToBoolean(FieldEquals(sum.val, prevPolynomialAtPrevR.val))
       THEN [obj |-> ver, res |-> Throw("SumMismatch")]
     ELSE accepted

\* mutant: the challenge is drawn and stored before the sum is compared
verifyRoundJPolynomial_DrawsFirst(ver, g_j, r_j) ==
  LET j == Len(ver.r) + 1
      sum == RoundSumOf(g_j)
      prevPolynomialAtPrevR ==
        getUnivariateLDE(ArrayAt(ver.polynomials, j - 2), ElemAt(ver.r, j - 2))
      drawn == [ver EXCEPT !.r = Append(ver.r, r_j)]
      accepted == [obj |-> [drawn EXCEPT !.polynomials = Append(ver.polynomials, g_j)],
                   res |-> Ok(r_j)]
  IN IF j > ver.v THEN [obj |-> ver, res |-> Throw("TooManyRounds")]
     ELSE IF Len(g_j) > 2 THEN [obj |-> ver, res |-> Throw("Degree")]
     ELSE IF ~sum.ok THEN [obj |-> ver, res |-> sum]
     ELSE IF j = 1
       THEN IF ~ToBoolean(FieldEquals(sum.val, ver.proposedSum))
              THEN [obj |-> drawn, res |-> Throw("SumMismatch")]
              ELSE accepted
     ELSE IF ~prevPolynomialAtPrevR.ok
       THEN [obj |-> drawn, res |-> prevPolynomialAtPrevR]
     ELSE IF ~ToBoolean(FieldEquals(sum.val, prevPolynomialAtPrevR.val))
       THEN [obj |-> drawn, res |-> Throw("SumMismatch")]
     ELSE accepted

\* verifyRoundJPolynomial(g_j), r_j the value getRandomFieldElement() returns.
\* Returns the Verifier after the call and the outcome.
verifyRoundJPolynomial(ver, g_j, r_j) ==
  LET j == Len(ver.r) + 1
      sum == RoundSumOf(g_j)
      prevPolynomialAtPrevR ==
        getUnivariateLDE(ArrayAt(ver.polynomials, j - 2), ElemAt(ver.r, j - 2))
      accepted == [obj |-> [ver EXCEPT !.r = Append(ver.r, r_j),
                                       !.polynomials = Append(ver.polynomials, g_j)],
                   res |-> Ok(r_j)]
  IN IF j > ver.v THEN [obj |-> ver, res |-> Throw("TooManyRounds")]
     ELSE IF Len(g_j) > 2 THEN [obj |-> ver, res |-> Throw("Degree")]
     ELSE IF ~sum.ok THEN [obj |-> ver, res |-> sum]
     ELSE IF j = 1
       THEN IF ~ToBoolean(FieldEquals(sum.val, ver.proposedSum))
              THEN [obj |-> ver, res |-> Throw("SumMismatch")]
              ELSE accepted
     ELSE IF ~prevPolynomialAtPrevR.ok
       THEN [obj |-> ver, res |-> prevPolynomialAtPrevR]
     ELSE IF ~ToBoolean(FieldEquals(sum.val, prevPolynomialAtPrevR.val))
       THEN [obj |-> ver, res |-> Throw("SumMismatch")]
     ELSE accepted

\* mutant: the oracle query compares g(r) with g_v at the first challenge
\* instead of the last one
verifyOracleQueryOfG_FirstChallenge(ver, g) ==
  IF Len(ver.r) # ver.v \/ Len(ver.polynomials) # ver.v
    THEN Throw("IncompleteRounds")
  ELSE LET gOfR == getMultilinearLDE(g, ver.r)
           g_vOfR_v ==
             getUnivariateLDE(ArrayAt(ver.polynomials, Len(ver.polynomials) - 1),
                              ElemAt(ver.r, 0))
       IN IF ~gOfR.ok THEN gOfR
          ELSE IF ~g_vOfR_v.ok THEN g_vOfR_v
          ELSE IF ~ToBoolean(FieldEquals(gOfR.val, g_vOfR_v.val))
            THEN Throw("OracleMismatch")
          ELSE Ok(0)

\* mutant: the oracle query does not check that v rounds were accepted
verifyOracleQueryOfG_NoRoundsCheck(ver, g) ==
  LET gOfR == getMultilinearLDE(g, ver.r)
      g_vOfR_v ==
        getUnivariateLDE(ArrayAt(ver.polynomials, Len(ver.polynomials) - 1),
                         ElemAt(ver.r, Len(ver.r) - 1))
  IN IF ~gOfR.ok THEN gOfR
     ELSE IF ~g_vOfR_v.ok THEN g_vOfR_v
     ELSE IF ~ToBoolean(FieldEquals(gOfR.val, g_vOfR_v.val))
       THEN Throw("OracleMismatch")
     ELSE Ok(0)

\* mutant: the outcome of the comparison of g(r) with g_v(r_v) is not acted on
verifyOracleQueryOfG_ComparisonNotActedOn(ver, g) ==
  IF Len(ver.r) # ver.v \/ Len(ver.polynomials) # ver.v
    THEN Throw("IncompleteRounds")
  ELSE LET gOfR == getMultilinearLDE(g, ver.r)
           g_vOfR_v ==
             getUnivariateLDE(ArrayAt(ver.polynomials, Len(ver.polynomials) - 1),
                              ElemAt(ver.r, Len(ver.r) - 1))
       IN IF ~gOfR.ok THEN gOfR
          ELSE IF ~g_vOfR_v.ok THEN g_vOfR_v
          ELSE Ok(0)

\* verifyOracleQueryOfG(g): returns nothing (Ok(0)) when it accepts
verifyOracleQueryOfG(ver, g) ==
  IF Len(ver.r) # ver.v \/ Len(ver.polynomials) # ver.v
    THEN Throw("IncompleteRounds")
  ELSE LET gOfR == getMultilinearLDE(g, ver.r)
           g_vOfR_v ==
             getUnivariateLDE(ArrayAt(ver.polynomials, Len(ver.polynomials) - 1),
                              ElemAt(ver.r, Len(ver.r) - 1))
       IN IF ~gOfR.ok THEN gOfR
          ELSE IF ~g_vOfR_v.ok THEN g_vOfR_v
          ELSE IF ~ToBoolean(FieldEquals(gOfR.val, g_vOfR_v.val))
            THEN Throw("OracleMismatch")
          ELSE Ok(0)

\* --------------------------------------- sum-check-recursive.ts: Verifier
\* new Verifier(proposedSum, g, v)
Recursive_NewVerifier(proposedSum, g, v) ==
  IF Len(g) > Pow2(v) THEN Throw("InvalidArity")
  ELSE Ok([v |-> v, g |-> g, r |-> <<>>, proposedSum |-> proposedSum])

\* roundJ(g_j), r_j the value getRandomFieldElement() returns: r_j is pushed
\* first, the carried proposedSum is replaced last
Recursive_roundJ(ver, g_j, r_j) ==
  LET pushed == [ver EXCEPT !.r = Append(ver.r, r_j)]
      g_j_of_r_1 == getUnivariateLDE(g_j, r_j)
      g_j_of_0 == getUnivariateLDE(g_j, Field(0))
      g_j_of_1 == getUnivariateLDE(g_j, Field(1))
      gOfR == getMultilinearLDE(pushed.g, pushed.r)
      accepted == [obj |-> [pushed EXCEPT !.proposedSum = g_j_of_r_1.val],
                   res |-> Ok(r_j)]
  IN IF ~g_j_of_r_1.ok THEN [obj |-> pushed, res |-> g_j_of_r_1]
     ELSE IF ~ToBoolean(FieldEquals(FieldAdd(g_j_of_0.val, g_j_of_1.val),
                                    ver.proposedSum))
       THEN [obj |-> pushed, res |-> Throw("SumMismatch")]
     ELSE IF Len(pushed.r) = ver.v
       THEN IF ~gOfR.ok THEN [obj |-> pushed, res |-> gOfR]
            ELSE IF ~ToBoolean(FieldEquals(g_j_of_r_1.val, gOfR.val))
              THEN [obj |-> pushed, res |-> Throw("OracleMismatch")]
            ELSE accepted
     ELSE accepted

\* -------------------------------------------------- sum-check.ts: Prover
\* getBinaryVectors(dimension) of sum-check.ts: no special case for dimension
\* 0, where the loop runs once and "0".padStart(0) yields the vector [0]; a
\* negative dimension makes 2 ** dimension a fraction, one iteration as well
SumCheck_getBinaryVectors(dimension) ==
  [k \in 1..(IF dimension < 0 THEN 1 ELSE Pow2(dimension)) |->
     LET chars == PadStart(ToString2(k - 1), dimension)
     IN [e \in 1..Len(chars) |-> FieldOfString(chars[e])]]

SumCheck_getProposedSum(p) ==
  ProposedSumLoop(p.g, SumCheck_getBinaryVectors(p.v), 0, Field(0))

\* getRoundJPolynomial(r_prev?) of sum-check.ts: r_prev is pushed only when r
\* is not empty
SumCheck_getRoundJPolynomial(p, r_prev) ==
  IF Len(p.r) >= p.v
    THEN [obj |-> p, res |-> Throw("RoundOverflow")]
  ELSE IF Len(p.r) = 0 /\ r_prev # <<>>
    THEN [obj |-> p, res |-> Throw("UnexpectedChallenge")]
  ELSE IF Len(p.r) # 0 /\ r_prev = <<>>
    THEN [obj |-> p, res |-> Throw("MissingChallenge")]
  ELSE LET r == IF Len(p.r) # 0 THEN Append(p.r, r_prev[1]) ELSE p.r
           q == [p EXCEPT !.r = r]
           j == Len(r) + 1
           binaryVectors == SumCheck_getBinaryVectors(p.v - j)
           sum0 == RoundSumLoop(p.g, r, 0, binaryVectors, 0, Field(0))
           sum1 == RoundSumLoop(p.g, r, 1, binaryVectors, 0, Field(0))
       IN IF ~sum0.ok THEN [obj |-> q, res |-> sum0]
          ELSE IF ~sum1.ok THEN [obj |-> q, res |-> sum1]
          ELSE [obj |-> q, res |-> Ok(<<sum0.val, sum1.val>>)]

\* ------------------------------------------------ sum-check.ts: Verifier
\* as the Verifier of sum-check-iterative.ts, except that the Bool object
\* that equals() returns is negated directly, without toBoolean()
SumCheck_verifyRoundJPolynomial(ver, g_j, r_j) ==
  LET j == Len(ver.r) + 1
      sum == RoundSumOf(g_j)
      prevPolynomialAtPrevR ==
        getUnivariateLDE(ArrayAt(ver.polynomials, j - 2), ElemAt(ver.r, j - 2))
      accepted == [obj |-> [ver EXCEPT !.r = Append(ver.r, r_j),
                                       !.polynomials = Append(ver.polynomials, g_j)],
                   res |-> Ok(r_j)]
  IN IF j > ver.v THEN [obj |-> ver, res |-> Throw("TooManyRounds")]
     ELSE IF Len(g_j) > 2 THEN [obj |-> ver, res |-> Throw("Degree")]
     ELSE IF ~sum.ok THEN [obj |-> ver, res |-> sum]
     ELSE IF j = 1
       THEN IF JsNotOfObject(FieldEquals(sum.val, ver.proposedSum))
              THEN [obj |-> ver, res |-> Throw("SumMismatch")]
              ELSE accepted
     ELSE IF ~prevPolynomialAtPrevR.ok
       THEN [obj |-> ver, res |-> prevPolynomialAtPrevR]
     ELSE IF JsNotOfObject(FieldEquals(sum.val, prevPolynomialAtPrevR.val))
       THEN [obj |-> ver, res |-> Throw("SumMismatch")]
     ELSE accepted

SumCheck_verifyOracleQueryOfG(ver, g) ==
  IF Len(ver.r) # ver.v \/ Len(ver.polynomials) # ver.v
    THEN Throw("IncompleteRounds")
  ELSE LET gOfR == getMultilinearLDE(g, ver.r)
           g_vOfR_v ==
             getUnivariateLDE(ArrayAt(ver.polynomials, Len(ver.polynomials) - 1),
                              ElemAt(ver.r, Len(ver.r) - 1))
       IN IF ~gOfR.ok THEN gOfR
          ELSE IF ~g_vOfR_v.ok THEN g_vOfR_v
          ELSE IF JsNotOfObject(FieldEquals(gOfR.val, g_vOfR_v.val))
            THEN Throw("OracleMismatch")
          ELSE Ok(0)

\* ------------------------------------------------------------ input sets
SeqsUpTo(S, n) == UNION {[1..k -> S] : k \in 0..n}

\* the field elements used as table entries
Elems == 0..Min(MaxElem, order - 1)

\* the field elements used as coordinates of evaluation vectors: the small
\* ones and Field.ORDER - 1
Coords == Elems \cup {order - 1}

FieldElems == 0..(order - 1)

\* the characters of messages: 'h' and 'i'
Chars == {104, 105}

Tables == SeqsUpTo(Elems, MaxLen)

Messages == SeqsUpTo(Chars, MaxLen)

\* evaluation vectors for a table of n entries: every length up to one more
\* than the dimension of the table
VectorsFor(n) == SeqsUpTo(Coords, (IF n = 0 THEN 0 ELSE CeilLog2(n)) + 1)

NoCall == [fn |-> "none", point |-> <<>>, result |-> Throw("none")]

NoProver == [v |-> 0, g |-> <<>>, r |-> <<>>]

NoVerifier == [v |-> 0, proposedSum |-> 0, polynomials |-> <<>>, r |-> <<>>]

NoLast == [op |-> "none", arg |-> <<>>, ok |-> TRUE, err |-> "none", ret |-> <<>>]

NoPeer == [kind |-> "none"]

NoRun == [pc |-> "none", sum |-> 0, r_j |-> <<>>, g_j |-> <<>>, j |-> 0,
          corrupted |-> FALSE]

\* --------------------------------------------------- evaluator runs (LDE)
\* one run draws a table or a message and evaluates one extension of it once
InitLDE ==
  /\ order = LeastPrimeAbove(MaxLen)
  /\ peer = NoPeer
  /\ input \in {[kind |-> "values", data |-> t] : t \in Tables}
               \cup {[kind |-> "message", data |-> m] : m \in Messages}
  /\ call = NoCall
  /\ prover = NoProver
  /\ verifier = NoVerifier
  /\ last = NoLast
  /\ run = NoRun

EvalUnivariateLDE ==
  /\ call = NoCall
  /\ input.kind = "values"
  /\ \E r \in FieldElems :
       call' = [fn |-> "getUnivariateLDE", point |-> <<r>>,
                result |-> getUnivariateLDE(input.data, r)]
  /\ UNCHANGED <<order, peer, input, prover, verifier, last, run>>

EvalMultilinearLDE ==
  /\ call = NoCall
  /\ input.kind = "values"
  /\ \E r \in VectorsFor(Len(input.data)) :
       call' = [fn |-> "getMultilinearLDE", point |-> r,
                result |-> getMultilinearLDE(input.data, r)]
  /\ UNCHANGED <<order, peer, input, prover, verifier, last, run>>

EvalUnivariateLagrange ==
  /\ call = NoCall
  /\ input.kind = "message"
  /\ \E r \in FieldElems :
       call' = [fn |-> "getUnivariateLagrange", point |-> <<r>>,
                result |-> getUnivariateLagrange(input.data, r)]
  /\ UNCHANGED <<order, peer, input, prover, verifier, last, run>>

EvalMultilinearLagrange ==
  /\ call = NoCall
  /\ input.kind = "message"
  /\ \E x \in VectorsFor(Len(input.data)) :
       call' = [fn |-> "getMultilinearLagrange", point |-> x,
                result |-> getMultilinearLagrange(input.data, x)]
  /\ UNCHANGED <<order, peer, input, prover, verifier, last, run>>

EvalMemoizedMultilinearLagrange ==
  /\ call = NoCall
  /\ input.kind = "message"
  /\ \E r \in VectorsFor(Len(input.data)) :
       call' = [fn |-> "getMemoizedMultilinearLagrange", point |-> r,
                result |-> getMemoizedMultilinearLagrange(input.data, r)]
  /\ UNCHANGED <<order, peer, input, prover, verifier, last, run>>

EvalReedSolomon ==
  /\ call = NoCall
  /\ input.kind = "message"
  /\ \E r \in FieldElems :
       call' = [fn |-> "getReedSolomon", point |-> <<r>>,
                result |-> getReedSolomon(input.data, r)]
  /\ UNCHANGED <<order, peer, input, prover, verifier, last, run>>

NextLDE ==
  \/ EvalUnivariateLDE
  \/ EvalMultilinearLDE
  \/ EvalUnivariateLagrange
  \/ EvalMultilinearLagrange
  \/ EvalMemoizedMultilinearLagrange
  \/ EvalReedSolomon

SpecLDE == InitLDE /\ [][NextLDE]_vars

\* ------------------------------------ 2-entry tables, every field point
\* the largest value the tests expect of the extension of "hi"
HiLargestValue == 109

\* tables and messages of 2 entries, among them [104, 105] and "hi", in a
\* field large enough to hold the expected values
InitPair ==
  /\ order = LeastPrimeAbove(HiLargestValue)
  /\ peer = NoPeer
  /\ input \in {[kind |-> "values", data |-> t] : t \in [1..2 -> Elems \cup Chars]}
               \cup {[kind |-> "message", data |-> m] : m \in [1..2 -> Chars]}
  /\ call = NoCall
  /\ prover = NoProver
  /\ verifier = NoVerifier
  /\ last = NoLast
  /\ run = NoRun

PairMultilinearLDE ==
  /\ call = NoCall
  /\ input.kind = "values"
  /\ \E r \in FieldElems :
       call' = [fn |-> "getMultilinearLDE", point |-> <<r>>,
                result |-> getMultilinearLDE(input.data, <<r>>)]
  /\ UNCHANGED <<order, peer, input, prover, verifier, last, run>>

PairMultilinearLagrange ==
  /\ call = NoCall
  /\ input.kind = "message"
  /\ \E r \in FieldElems :
       call' = [fn |-> "getMultilinearLagrange", point |-> <<r>>,
                result |-> getMultilinearLagrange(input.data, <<r>>)]
  /\ UNCHANGED <<order, peer, input, prover, verifier, last, run>>

PairMemoizedMultilinearLagrange ==
  /\ call = NoCall
  /\ input.kind = "message"
  /\ \E r \in FieldElems :
       call' = [fn |-> "getMemoizedMultilinearLagrange", point |-> <<r>>,
                result |-> getMemoizedMultilinearLagrange(input.data, <<r>>)]
  /\ UNCHANGED <<order, peer, input, prover, verifier, last, run>>

NextPair ==
  \/ EvalUnivariateLDE
  \/ EvalUnivariateLagrange
  \/ PairMultilinearLDE
  \/ PairMultilinearLagrange
  \/ PairMemoizedMultilinearLagrange

SpecPair == InitPair /\ [][NextPair]_vars

\* ------------------------------- runner() of sum-check-iterative.ts
\* the outcome of a method call: op, its argument, and either the returned
\* value (ret) or the error thrown
Outcome(op, arg, res, ret) ==
  [op |-> op, arg |-> arg, ok |-> res.ok, err |-> res.err,
   ret |-> IF res.ok THEN ret ELSE <<>>]

\* the value tables of a v-variate session as the runner builds them: more
\* than 2^(v-1) and at most 2^v entries
TablesOfArity(v) ==
  UNION {[1..n -> 0..Min(MaxEntry, order - 1)] :
           n \in (Pow2(v - 1) + 1)..Min(Pow2(v), MaxLen)}

\* the state after `new Prover(g, v)`
RunStart(g, v) ==
  /\ prover = NewProver(g, v).val
  /\ peer = NoPeer
  /\ verifier = NoVerifier
  /\ last = NoLast
  /\ run = [pc |-> "getProposedSum", sum |-> 0, r_j |-> <<>>, g_j |-> <<>>,
            j |-> 1, corrupted |-> FALSE]
  /\ input = [kind |-> "none", data |-> <<>>]
  /\ call = NoCall

InitRun ==
  /\ order = LeastPrimeAbove(MaxLen)
  /\ \E v \in 1..MaxV : \E g \in TablesOfArity(v) : RunStart(g, v)

\* const sum = prover.getProposedSum(); const verifier = new Verifier(sum, v)
RunGetProposedSum ==
  /\ run.pc = "getProposedSum"
  /\ LET sum == getProposedSum(prover)
     IN /\ last' = Outcome("getProposedSum", <<>>, sum, <<sum.val>>)
        /\ IF sum.ok
             THEN /\ verifier' = NewVerifier(sum.val, prover.v)
                  /\ run' = [run EXCEPT !.sum = sum.val, !.pc = "prove"]
             ELSE /\ run' = [run EXCEPT !.pc = "threw"]
                  /\ UNCHANGED verifier
  /\ UNCHANGED <<order, peer, input, call, prover>>

\* const g_j = prover.getRoundJPolynomial(r_j)
RunProve ==
  /\ run.pc = "prove"
  /\ LET out == getRoundJPolynomial(prover, run.r_j)
     IN /\ prover' = out.obj
        /\ last' = Outcome("getRoundJPolynomial", run.r_j, out.res, out.res.val)
        /\ run' = IF out.res.ok
                    THEN [run EXCEPT !.g_j = out.res.val, !.pc = "verify"]
                    ELSE [run EXCEPT !.pc = "threw"]
  /\ UNCHANGED <<order, peer, input, call, verifier>>

\* one entry of g_j is replaced by a different field element before it is
\* sent, once in a run
Corrupt ==
  /\ run.pc = "verify"
  /\ ~run.corrupted
  /\ \E k \in 1..Len(run.g_j) : \E x \in FieldElems \ {run.g_j[k]} :
       run' = [run EXCEPT !.g_j[k] = x, !.corrupted = TRUE]
  /\ UNCHANGED <<order, peer, input, call, prover, verifier, last>>

\* r_j = verifier.verifyRoundJPolynomial(g_j), and the loop test j <= v
RunVerify ==
  /\ run.pc = "verify"
  /\ \E rnd \in Challenges :
       LET out == verifyRoundJPolynomial(verifier, run.g_j, rnd)
       IN /\ verifier' = out.obj
          /\ last' = Outcome("verifyRoundJPolynomial", run.g_j, out.res,
                             <<out.res.val>>)
          /\ run' = IF out.res.ok
                      THEN [run EXCEPT !.r_j = <<out.res.val>>, !.j = run.j + 1,
                                       !.pc = IF run.j + 1 <= prover.v
                                                THEN "prove" ELSE "oracle"]
                      ELSE [run EXCEPT !.pc = "threw"]
  /\ UNCHANGED <<order, peer, input, call, prover>>

\* verifier.verifyOracleQueryOfG(prover.g)
RunOracle ==
  /\ run.pc = "oracle"
  /\ LET res == verifyOracleQueryOfG(verifier, prover.g)
     IN /\ last' = Outcome("verifyOracleQueryOfG", prover.g, res, <<>>)
        /\ run' = [run EXCEPT !.pc = IF res.ok THEN "done" ELSE "threw"]
  /\ UNCHANGED <<order, peer, input, call, prover, verifier>>

NextRun ==
  \/ RunGetProposedSum
  \/ RunProve
  \/ Corrupt
  \/ RunVerify
  \/ RunOracle

SpecRun == InitRun /\ [][NextRun]_vars

\* the runner's own instance: v = 3 and g = [1, ..., 8]
ScenarioV == 3

ScenarioG == [i \in 1..Pow2(ScenarioV) |-> i]

RECURSIVE SumSeq(_)
SumSeq(s) == IF s = <<>> THEN 0 ELSE Head(s) + SumSeq(Tail(s))

\* a field large enough that the sum of the table does not wrap
InitScenario ==
  /\ order = LeastPrimeAbove(SumSeq(ScenarioG))
  /\ RunStart(ScenarioG, ScenarioV)

SpecScenario == InitScenario /\ [][NextRun]_vars

\* ----------------------- the Verifier of sum-check-iterative.ts, any caller
\* the polynomials a caller may send: up to 3 entries
Polys == SeqsUpTo(0..Min(MaxEntry, order - 1), 3)

\* the tables a caller may pass to the oracle query: every entry is zero or
\* the largest entry
OracleTables == SeqsUpTo({0, Min(MaxEntry, order - 1)}, MaxLen)

\* the state after `new Verifier(proposedSum, v)`
InitVerifier ==
  /\ order = LeastPrimeAbove(MaxLen)
  /\ peer = NoPeer
  /\ \E proposedSum \in FieldElems : \E v \in 0..MaxV :
       verifier = NewVerifier(proposedSum, v)
  /\ prover = NoProver
  /\ last = NoLast
  /\ run = NoRun
  /\ input = [kind |-> "none", data |-> <<>>]
  /\ call = NoCall

VerifyRoundJPolynomial ==
  /\ last.op = "none"
  /\ \E g_j \in Polys : \E rnd \in Challenges :
       LET out == verifyRoundJPolynomial(verifier, g_j, rnd)
       IN /\ verifier' = out.obj
          /\ last' = Outcome("verifyRoundJPolynomial", g_j, out.res,
                             <<out.res.val>>)
  /\ UNCHANGED <<order, peer, input, call, prover, run>>

VerifyOracleQueryOfG ==
  /\ last.op = "none"
  /\ \E g \in OracleTables :
       last' = Outcome("verifyOracleQueryOfG", g,
                       verifyOracleQueryOfG(verifier, g), <<>>)
  /\ UNCHANGED <<order, peer, input, call, prover, verifier, run>>

\* the caller takes the outcome of the call (the returned value, or the
\* error it catches) and is free to call again
Return ==
  /\ last.op # "none"
  /\ last' = NoLast
  /\ UNCHANGED <<order, peer, input, call, prover, verifier, run>>

NextVerifier ==
  \/ VerifyRoundJPolynomial
  \/ VerifyOracleQueryOfG
  \/ Return

SpecVerifier == InitVerifier /\ [][NextVerifier]_vars

\* ---------- the Verifier of sum-check-iterative.ts with the caller's record
\* what the caller has seen of the session so far: "rejected" after a degree,
\* sum-mismatch or oracle-mismatch error, "done" after an accepted oracle
\* query
Seen(pc, res) ==
  IF res.ok THEN pc
  ELSE IF pc # "done" /\ res.err \in {"Degree", "SumMismatch", "OracleMismatch"}
    THEN "rejected"
  ELSE pc

SessionVerifyRoundJPolynomial ==
  /\ last.op = "none"
  /\ \E g_j \in Polys : \E rnd \in Challenges :
       LET out == verifyRoundJPolynomial(verifier, g_j, rnd)
       IN /\ verifier' = out.obj
          /\ last' = Outcome("verifyRoundJPolynomial", g_j, out.res,
                             <<out.res.val>>)
          /\ run' = [run EXCEPT !.pc = Seen(@, out.res)]
  /\ UNCHANGED <<order, peer, input, call, prover>>

SessionVerifyOracleQueryOfG ==
  /\ last.op = "none"
  /\ \E g \in OracleTables :
       LET res == verifyOracleQueryOfG(verifier, g)
       IN /\ last' = Outcome("verifyOracleQueryOfG", g, res, <<>>)
          /\ run' = [run EXCEPT !.pc = IF res.ok THEN "done" ELSE Seen(@, res)]
  /\ UNCHANGED <<order, peer, input, call, prover, verifier>>

NextSession ==
  \/ SessionVerifyRoundJPolynomial
  \/ SessionVerifyOracleQueryOfG
  \/ Return

SpecSession == InitVerifier /\ [][NextSession]_vars

\* --------------------------------- the Verifier of sum-check.ts, any caller
SumCheckVerifyRoundJPolynomial ==
  /\ last.op = "none"
  /\ \E g_j \in Polys : \E rnd \in Challenges :
       LET out == SumCheck_verifyRoundJPolynomial(verifier, g_j, rnd)
       IN /\ verifier' = out.obj
          /\ last' = Outcome("verifyRoundJPolynomial", g_j, out.res,
                             <<out.res.val>>)
  /\ UNCHANGED <<order, peer, input, call, prover, run>>

SumCheckVerifyOracleQueryOfG ==
  /\ last.op = "none"
  /\ \E g \in OracleTables :
       last' = Outcome("verifyOracleQueryOfG", g,
                       SumCheck_verifyOracleQueryOfG(verifier, g), <<>>)
  /\ UNCHANGED <<order, peer, input, call, prover, verifier, run>>

NextSumCheckVerifier ==
  \/ SumCheckVerifyRoundJPolynomial
  \/ SumCheckVerifyOracleQueryOfG
  \/ Return

SpecSumCheckVerifier == InitVerifier /\ [][NextSumCheckVerifier]_vars

\* ------------------------- the Prover of sum-check-prover.ts, any caller
\* the tables the constructor accepts for v variables
ProverTables(v) == SeqsUpTo(0..Min(MaxEntry, order - 1), Min(Pow2(v), MaxLen))

\* the state after `new Prover(g, v)`
InitProver ==
  /\ order = LeastPrimeAbove(MaxLen)
  /\ peer = NoPeer
  /\ \E v \in 0..MaxV : \E g \in ProverTables(v) :
       prover = NewProver(g, v).val
  /\ verifier = NoVerifier
  /\ last = NoLast
  /\ run = NoRun
  /\ input = [kind |-> "none", data |-> <<>>]
  /\ call = NoCall

GetProposedSum ==
  /\ last.op = "none"
  /\ LET sum == getProposedSum(prover)
     IN last' = Outcome("getProposedSum", <<>>, sum, <<sum.val>>)
  /\ UNCHANGED <<order, peer, input, call, prover, verifier, run>>

\* r grows by one entry on every call that passes a challenge: the calls are
\* cut off once it holds more than MaxV entries. The caller counts the
\* polynomials it has received in run.j, up to MaxV + 1.
GetRoundJPolynomial ==
  /\ last.op = "none"
  /\ Len(prover.r) <= MaxV
  /\ run.j <= MaxV
  /\ \E r_prev \in {<<>>} \cup {<<x>> : x \in Challenges} :
       LET out == getRoundJPolynomial(prover, r_prev)
       IN /\ prover' = out.obj
          /\ last' = Outcome("getRoundJPolynomial", r_prev, out.res, out.res.val)
          /\ run' = [run EXCEPT !.j = IF out.res.ok THEN @ + 1 ELSE @]
  /\ UNCHANGED <<order, peer, input, call, verifier>>

NextProver ==
  \/ GetProposedSum
  \/ GetRoundJPolynomial
  \/ Return

SpecProver == InitProver /\ [][NextProver]_vars

\* ------------------------------------ the Prover of sum-check.ts, any caller
SumCheckGetProposedSum ==
  /\ last.op = "none"
  /\ LET sum == SumCheck_getProposedSum(prover)
     IN last' = Outcome("getProposedSum", <<>>, sum, <<sum.val>>)
  /\ UNCHANGED <<order, peer, input, call, prover, verifier, run>>

\* the caller counts the polynomials it has received in run.j, up to MaxV + 1
SumCheckGetRoundJPolynomial ==
  /\ last.op = "none"
  /\ Len(prover.r) <= MaxV
  /\ run.j <= MaxV
  /\ \E r_prev \in {<<>>} \cup {<<x>> : x \in Challenges} :
       LET out == SumCheck_getRoundJPolynomial(prover, r_prev)
       IN /\ prover' = out.obj
          /\ last' = Outcome("getRoundJPolynomial", r_prev, out.res, out.res.val)
          /\ run' = [run EXCEPT !.j = IF out.res.ok THEN @ + 1 ELSE @]
  /\ UNCHANGED <<order, peer, input, call, verifier>>

NextSumCheckProver ==
  \/ SumCheckGetProposedSum
  \/ SumCheckGetRoundJPolynomial
  \/ Return

SpecSumCheckProver == InitProver /\ [][NextSumCheckProver]_vars

\* ------- one transcript sent to the Verifiers of sum-check-iterative.ts and
\* ------- sum-check-recursive.ts
\* both Verifiers are constructed for the same v, g and proposed sum; run.pc
\* is the verdict of the iterative one so far, peer.pc that of the recursive
\* one, run.j the number of messages sent
InitVariants ==
  /\ order = LeastPrimeAbove(MaxLen)
  /\ \E v \in 1..MaxV : \E g \in ProverTables(v) : \E proposedSum \in FieldElems :
       /\ prover = NewProver(g, v).val
       /\ verifier = NewVerifier(proposedSum, v)
       /\ peer = [kind |-> "recursive", pc |-> "running",
                  obj |-> Recursive_NewVerifier(proposedSum, g, v).val]
  /\ run = [NoRun EXCEPT !.pc = "running"]
  /\ last = NoLast
  /\ input = [kind |-> "none", data |-> <<>>]
  /\ call = NoCall

\* the next message g_j goes to both Verifiers, which draw the same challenge;
\* a Verifier that has thrown receives nothing more
VariantsRound ==
  /\ run.j < verifier.v
  /\ run.pc = "running" \/ peer.pc = "running"
  /\ \E g_j \in Polys : \E rnd \in Challenges :
       LET it == verifyRoundJPolynomial(verifier, g_j, rnd)
           rec == Recursive_roundJ(peer.obj, g_j, rnd)
       IN /\ IF run.pc = "running"
               THEN /\ verifier' = it.obj
                    /\ run' = [run EXCEPT !.j = @ + 1, !.g_j = g_j,
                                 !.pc = IF it.res.ok THEN "running" ELSE "rejected"]
               ELSE /\ verifier' = verifier
                    /\ run' = [run EXCEPT !.j = @ + 1, !.g_j = g_j]
          /\ IF peer.pc = "running"
               THEN peer' = [peer EXCEPT !.obj = rec.obj,
                               !.pc = IF ~rec.res.ok THEN "rejected"
                                      ELSE IF Len(rec.obj.r) = rec.obj.v
                                        THEN "accepted"
                                      ELSE "running"]
               ELSE peer' = peer
  /\ UNCHANGED <<order, input, call, prover, last>>

\* after the last message the iterative Verifier is asked the oracle query
VariantsOracle ==
  /\ run.j = verifier.v
  /\ run.pc = "running"
  /\ LET res == verifyOracleQueryOfG(verifier, prover.g)
     IN /\ last' = Outcome("verifyOracleQueryOfG", prover.g, res, <<>>)
        /\ run' = [run EXCEPT !.pc = IF res.ok THEN "accepted" ELSE "rejected"]
  /\ UNCHANGED <<order, peer, input, call, prover, verifier>>

NextVariants ==
  \/ VariantsRound
  \/ VariantsOracle

SpecVariants == InitVariants /\ [][NextVariants]_vars

\* ------------------------------------------------------ Reed-Solomon runs
\* one run draws a message and evaluates its Reed-Solomon extension once, in
\* a field that holds every character code
InitReedSolomon ==
  /\ order = LeastPrimeAbove(HiLargestValue)
  /\ peer = NoPeer
  /\ input \in {[kind |-> "message", data |-> m] : m \in Messages}
  /\ call = NoCall
  /\ prover = NoProver
  /\ verifier = NoVerifier
  /\ last = NoLast
  /\ run = NoRun

NextReedSolomon == EvalReedSolomon

SpecReedSolomon == InitReedSolomon /\ [][NextReedSolomon]_vars

\* -------------------------------------------------- two sessions, interleaved
\* the table the runner builds: g = Array.from({length: 2 ** v}, (_, i) => Field(i + 1))
SessionG(v) == [i \in 1..Pow2(v) |-> Field(i)]

\* a session before its first call: a Prover, no Verifier yet, and the
\* caller's locals: the claimed sum, the challenges it has received (r_j), the
\* last polynomial (g_j), the calls it has made (j) and whether it alters the
\* sum it passes on
NewSession(v, forged) ==
  [prover |-> NewProver(SessionG(v), v).val,
   verifier |-> NoVerifier,
   run |-> [pc |-> "getProposedSum", sum |-> 0, r_j |-> <<>>, g_j |-> <<>>,
            j |-> 0, corrupted |-> forged]]

\* const sum = prover.getProposedSum(); const verifier = new Verifier(sum, v)
SessGetProposedSum(s) ==
  LET sum == getProposedSum(s.prover)
      claimed == IF s.run.corrupted THEN FieldAdd(sum.val, Field(1)) ELSE sum.val
  IN IF sum.ok
       THEN [s EXCEPT !.verifier = NewVerifier(claimed, s.prover.v),
                      !.run = [@ EXCEPT !.sum = claimed, !.pc = "prove",
                                        !.j = @ + 1]]
       ELSE [s EXCEPT !.run = [@ EXCEPT !.pc = "threw", !.j = @ + 1]]

\* const g_j = prover.getRoundJPolynomial(r_j)
SessProve(s) ==
  LET r_prev == IF s.run.r_j = <<>> THEN <<>>
                ELSE <<s.run.r_j[Len(s.run.r_j)]>>
      out == getRoundJPolynomial(s.prover, r_prev)
  IN [s EXCEPT !.prover = out.obj,
               !.run = IF out.res.ok
                         THEN [@ EXCEPT !.g_j = out.res.val, !.pc = "verify",
                                        !.j = @ + 1]
                         ELSE [@ EXCEPT !.pc = "threw", !.j = @ + 1]]

\* r_j = verifier.verifyRoundJPolynomial(g_j), and the loop test j <= v
SessVerify(s, rnd) ==
  LET out == verifyRoundJPolynomial(s.verifier, s.run.g_j, rnd)
  IN [s EXCEPT !.verifier = out.obj,
               !.run = [@ EXCEPT !.r_j = Append(@, rnd),
                                 !.j = @ + 1,
                                 !.pc = IF ~out.res.ok THEN "threw"
                                        ELSE IF Len(out.obj.r) < s.prover.v
                                          THEN "prove"
                                        ELSE "oracle"]]

\* verifier.verifyOracleQueryOfG(prover.g)
SessOracle(s) ==
  LET res == verifyOracleQueryOfG(s.verifier, s.prover.g)
  IN [s EXCEPT !.run = [@ EXCEPT !.pc = IF res.ok THEN "done" ELSE "threw",
                                 !.j = @ + 1]]

\* mutant: the fields of the first session's objects are the fields of every
\* session's objects
ThisSession_Shared(i) ==
  [prover |-> prover, verifier |-> verifier, run |-> run]

\* the objects of session i: each `new` gives the instance its own fields
ThisSession(i) ==
  IF i = 1 THEN [prover |-> prover, verifier |-> verifier, run |-> run]
  ELSE peer.session

\* session i's objects after one of its calls; the other session's objects
\* are not touched
StoreSession(i, s) ==
  IF i = 1
    THEN /\ prover' = s.prover
         /\ verifier' = s.verifier
         /\ run' = s.run
         /\ peer' = peer
    ELSE /\ peer' = [peer EXCEPT !.session = s]
         /\ UNCHANGED <<prover, verifier, run>>

\* two sessions of the runner, each for its own v, one or both passing on an
\* altered sum
InitSessions ==
  /\ order = LeastPrimeAbove(MaxLen)
  /\ \E v1, v2 \in 1..MaxV : \E f1, f2 \in BOOLEAN :
       /\ input = [kind |-> "sessions",
                   data |-> <<[v |-> v1, forged |-> f1],
                              [v |-> v2, forged |-> f2]>>]
       /\ prover = NewSession(v1, f1).prover
       /\ verifier = NewSession(v1, f1).verifier
       /\ run = NewSession(v1, f1).run
       /\ peer = [kind |-> "session", session |-> NewSession(v2, f2)]
  /\ last = NoLast
  /\ call = NoCall

SessionsGetProposedSum ==
  /\ \E i \in 1..2 :
       /\ ThisSession(i).run.pc = "getProposedSum"
       /\ StoreSession(i, SessGetProposedSum(ThisSession(i)))
  /\ UNCHANGED <<order, input, call, last>>

SessionsProve ==
  /\ \E i \in 1..2 :
       /\ ThisSession(i).run.pc = "prove"
       /\ StoreSession(i, SessProve(ThisSession(i)))
  /\ UNCHANGED <<order, input, call, last>>

SessionsVerify ==
  /\ \E i \in 1..2 :
       /\ ThisSession(i).run.pc = "verify"
       /\ \E rnd \in Challenges :
            StoreSession(i, SessVerify(ThisSession(i), rnd))
  /\ UNCHANGED <<order, input, call, last>>

SessionsOracle ==
  /\ \E i \in 1..2 :
       /\ ThisSession(i).run.pc = "oracle"
       /\ StoreSession(i, SessOracle(ThisSession(i)))
  /\ UNCHANGED <<order, input, call, last>>

NextSessions ==
  \/ SessionsGetProposedSum
  \/ SessionsProve
  \/ SessionsVerify
  \/ SessionsOracle

SpecSessions == InitSessions /\ [][NextSessions]_vars

\* ----------------------------------------------------------- toBinary runs
\* one run draws a number and a bit length and converts the number once
InitToBinary ==
  /\ order = LeastPrimeAbove(MaxLen)
  /\ peer = NoPeer
  /\ \E num \in 0..(Pow2(MaxLen) - 1) : \E bitLength \in 0..MaxLen :
       input = [kind |-> "number", data |-> <<num, bitLength>>]
  /\ call = NoCall
  /\ prover = NoProver
  /\ verifier = NoVerifier
  /\ last = NoLast
  /\ run = NoRun

EvalToBinary ==
  /\ call = NoCall
  /\ input.kind = "number"
  /\ call' = [fn |-> "toBinary", point |-> input.data,
              result |-> Ok(toBinary(input.data[1], input.data[2]))]
  /\ UNCHANGED <<order, peer, input, prover, verifier, last, run>>

NextToBinary == EvalToBinary

SpecToBinary == InitToBinary /\ [][NextToBinary]_vars

\* ----------------------------------------------------------- construction
\* the arguments of a constructor call: any table, any v, any proposed sum
InitConstruct ==
  /\ order = LeastPrimeAbove(MaxLen)
  /\ peer = NoPeer
  /\ \E g \in Tables : \E v \in 0..MaxV : \E proposedSum \in Elems :
       input = [kind |-> "constructor", data |-> g, v |-> v,
                proposedSum |-> proposedSum]
  /\ prover = NoProver
  /\ verifier = NoVerifier
  /\ last = NoLast
  /\ run = NoRun
  /\ call = NoCall

\* new Prover(g, v) of sum-check-prover.ts
ConstructProver ==
  /\ last.op = "none"
  /\ LET res == NewProver(input.data, input.v)
     IN /\ prover' = IF res.ok THEN res.val ELSE prover
        /\ last' = Outcome("new Prover", input.data, res, <<>>)
  /\ UNCHANGED <<order, peer, input, call, verifier, run>>

\* new Verifier(proposedSum, g, v) of sum-check-recursive.ts
ConstructRecursiveVerifier ==
  /\ last.op = "none"
  /\ LET res == Recursive_NewVerifier(input.proposedSum, input.data, input.v)
     IN /\ peer' = IF res.ok
                     THEN [kind |-> "recursive", pc |-> "running", obj |-> res.val]
                     ELSE peer
        /\ last' = Outcome("new Verifier", input.data, res, <<>>)
  /\ UNCHANGED <<order, input, call, prover, verifier, run>>

NextConstruct ==
  \/ ConstructProver
  \/ ConstructRecursiveVerifier

SpecConstruct == InitConstruct /\ [][NextConstruct]_vars

\* ----------------------------------------------------------------- C1
\* C1 (completeness): in a run of the runner in which no g_j was tampered
\* with, no call throws, the run is in round j <= v or past round v at the
\* oracle query, and it ends with verifyOracleQueryOfG accepting after
\* exactly v rounds.
C1_Completeness ==
  ~run.corrupted =>
    /\ run.pc \in {"getProposedSum", "prove", "verify", "oracle", "done"}
    /\ run.pc \in {"prove", "verify"} => run.j \in 1..prover.v
    /\ run.pc \in {"oracle", "done"} => run.j = prover.v + 1
    /\ run.pc = "done" =>
         /\ last.op = "verifyOracleQueryOfG" /\ last.ok
         /\ Len(verifier.r) = prover.v

\* an honest run of the largest arity accepted after a challenge outside {0, 1}
C1_Witness ==
  /\ run.pc = "done" /\ ~run.corrupted /\ prover.v = MaxV
  /\ \E k \in 1..Len(verifier.r) : verifier.r[k] >= 2
  /\ Len(prover.g) < Pow2(prover.v)

\* ----------------------------------------------------------------- C2
\* C2 (concrete scenario): with v = 3 and g = [1..8] getProposedSum returns
\* 36, and the untampered run is accepted for every challenge sequence with
\* the Verifier's r of exactly 3 entries.
C2_Scenario ==
  /\ run.pc # "getProposedSum" => run.sum = 36
  /\ ~run.corrupted =>
       /\ run.pc \in {"getProposedSum", "prove", "verify", "oracle", "done"}
       /\ run.pc \in {"oracle", "done"} => run.j = 4
       /\ run.pc = "done" =>
            /\ last.op = "verifyOracleQueryOfG" /\ last.ok
            /\ Len(verifier.r) = 3

C2_Witness ==
  /\ run.pc = "done" /\ ~run.corrupted /\ prover.g = ScenarioG
  /\ run.sum = 36 /\ Len(verifier.r) = 3
  /\ \A k \in 1..3 : verifier.r[k] >= 2

\* ----------------------------------------------------------------- C3
\* C3 (soundness spot check): once one entry of an honest g_j has been
\* replaced by a different field element, the run is never accepted: the
\* tampered g_j is still to be verified, or verifyRoundJPolynomial or
\* verifyOracleQueryOfG has thrown.
C3_CorruptionRejected ==
  run.corrupted =>
    /\ run.pc # "done"
    /\ run.pc \in {"verify", "threw"}
    /\ run.pc = "threw" =>
         /\ last.op \in {"verifyRoundJPolynomial", "verifyOracleQueryOfG"}
         /\ ~last.ok

\* a tampered round-2 polynomial was rejected
C3_Witness ==
  /\ run.corrupted /\ run.pc = "threw" /\ run.j = 2
  /\ last.op = "verifyRoundJPolynomial" /\ last.err = "SumMismatch"

\* ----------------------------------------------------------------- C4
\* g_j(0) + g_j(1) for a polynomial of 1 or 2 entries
C4_S(g_j) ==
  FieldAdd(getUnivariateLDE(g_j, Field(0)).val, getUnivariateLDE(g_j, Field(1)).val)

\* the value a round must match: proposedSum in round 1, later the previous
\* polynomial at the previous challenge
C4_Expected(ver) ==
  IF Len(ver.r) = 0 THEN ver.proposedSum
  ELSE getUnivariateLDE(ver.polynomials[Len(ver.r)], ver.r[Len(ver.r)]).val

\* C4 (round consistency check, sum-check-iterative.ts): a call of
\* verifyRoundJPolynomial in a round j <= v with a g_j of 1 or 2 entries
\* throws exactly when g_j(0) + g_j(1) differs from the expected value, and
\* otherwise returns a challenge, which it appends to r together with g_j.
C4_RoundCheck ==
  [][(/\ last'.op = "verifyRoundJPolynomial"
      /\ Len(last'.arg) \in 1..2
      /\ Len(verifier.r) < verifier.v)
     => /\ last'.ok <=> (C4_S(last'.arg) = C4_Expected(verifier))
        /\ ~last'.ok => last'.err = "SumMismatch"
        /\ last'.ok => /\ Len(last'.ret) = 1
                       /\ last'.ret[1] \in Challenges
                       /\ verifier'.r = Append(verifier.r, last'.ret[1])
                       /\ verifier'.polynomials =
                            Append(verifier.polynomials, last'.arg)]_vars

\* a round-2 polynomial was accepted against a previous polynomial evaluated
\* outside its nodes
C4_Witness ==
  /\ last.op = "verifyRoundJPolynomial" /\ last.ok
  /\ Len(verifier.r) = 2 /\ verifier.r[1] >= 2
  /\ Len(verifier.polynomials[1]) = 2
  /\ verifier.polynomials[1][1] # verifier.polynomials[1][2]
  /\ C4_S(last.arg) # verifier.proposedSum

\* ----------------------------------------------------------------- C5
\* C5 (round consistency check, sum-check.ts): a call of
\* verifyRoundJPolynomial with a g_j of 1 or 2 entries whose g_j(0) + g_j(1)
\* differs from the expected value throws and yields no challenge.
C5_SumCheckRoundCheck ==
  [][(/\ last'.op = "verifyRoundJPolynomial"
      /\ Len(last'.arg) \in 1..2
      /\ Len(verifier.r) < verifier.v
      /\ C4_S(last'.arg) # C4_Expected(verifier))
     => ~last'.ok]_vars

\* ----------------------------------------------------------------- C6
\* C6 (oracle check, sum-check-iterative.ts): once v rounds are accepted, a
\* call of verifyOracleQueryOfG(g) accepts exactly when the multilinear
\* extension of g at the whole challenge vector is defined and equals the last
\* stored polynomial at the last challenge, and throws otherwise; it changes
\* nothing.
C6_OracleCheck ==
  [][(/\ last'.op = "verifyOracleQueryOfG"
      /\ Len(verifier.r) = verifier.v
      /\ Len(verifier.polynomials) = verifier.v)
     => /\ last'.ok <=>
             /\ verifier.v >= 1
             /\ getMultilinearLDE(last'.arg, verifier.r).ok
             /\ getMultilinearLDE(last'.arg, verifier.r).val =
                  getUnivariateLDE(verifier.polynomials[verifier.v],
                                   verifier.r[verifier.v]).val
        /\ verifier' = verifier]_vars

\* an oracle query accepted after two rounds, the last challenge outside the
\* nodes of g_v and g not constant
C6_Witness ==
  /\ last.op = "verifyOracleQueryOfG" /\ last.ok
  /\ verifier.v = 2 /\ verifier.r[2] >= 2 /\ verifier.r[1] # verifier.r[2]
  /\ \E a, b \in 1..Len(last.arg) : last.arg[a] # last.arg[b]

\* ----------------------------------------------------------------- C7
\* C7 (short tables are zero-padded): for every v >= 0 and every non-empty g
\* of at most 2^v entries getProposedSum returns the sum of the entries of g.
C7_ProposedSumOfShortTables ==
  (last.op = "getProposedSum" /\ Len(prover.g) >= 1)
    => /\ last.ok
       /\ last.ret = <<Field(SumSeq(prover.g))>>

\* ----------------------------------------------------------------- C8
\* C8 (evaluator equivalence): for every non-empty message of length n and
\* every r of length ceil(log2 n), getMemoizedMultilinearLagrange returns what
\* getMultilinearLagrange returns, a field element.
C8_EvaluatorsAgree ==
  (/\ call.fn = "getMemoizedMultilinearLagrange"
   /\ Len(input.data) >= 1
   /\ Len(call.point) = CeilLog2(Len(input.data)))
    => /\ call.result.ok
       /\ call.result = getMultilinearLagrange(input.data, call.point)

\* ----------------------------------------------------------------- C9
\* C9 (univariate node exactness): getUnivariateLDE(values, i) returns
\* values[i] and getUnivariateLagrange(message, i) the code of the i-th
\* character, for every node i < n of a non-empty table or message.
C9_UnivariateNodeExact ==
  /\ (/\ call.fn = "getUnivariateLDE"
      /\ call.point[1] < Len(input.data))
       => call.result = Ok(input.data[call.point[1] + 1])
  /\ (/\ call.fn = "getUnivariateLagrange"
      /\ call.point[1] < Len(input.data))
       => call.result = Ok(input.data[call.point[1] + 1] % order)

\* the last node of a table of distinct entries was evaluated
C9_Witness ==
  /\ call.fn = "getUnivariateLDE" /\ Len(input.data) = MaxLen
  /\ call.point = <<MaxLen - 1>>
  /\ input.data[MaxLen] # input.data[1]
  /\ call.result = Ok(input.data[MaxLen])

\* ---------------------------------------------------------------- C10
\* the d-bit binary encoding of i, most significant bit first
C10_Vertex(i, d) == [k \in 1..d |-> (i \div Pow2(d - k)) % 2]

\* C10 (multilinear node exactness): at the vertex that encodes the index i
\* getMultilinearLDE returns values[i] if i < n and zero otherwise, and so
\* agrees with getUnivariateLDE(values, i) for i < n; getMultilinearLagrange
\* does the same on the character codes of a message.
C10_MultilinearNodeExact ==
  \A i \in 0..(Pow2(Len(call.point)) - 1) :
    (/\ Len(input.data) >= 1
     /\ Len(call.point) = CeilLog2(Len(input.data))
     /\ call.point = C10_Vertex(i, Len(call.point)))
      => /\ call.fn = "getMultilinearLDE" =>
              /\ call.result =
                   Ok(IF i < Len(input.data) THEN input.data[i + 1] ELSE 0)
              /\ i < Len(input.data) =>
                   call.result = getUnivariateLDE(input.data, Field(i))
         /\ call.fn = "getMultilinearLagrange" =>
              call.result =
                Ok(IF i < Len(input.data) THEN input.data[i + 1] % order ELSE 0)

\* the vertex (1, 0) of a 3-entry table returned the third entry, which
\* differs from the second
C10_Witness ==
  /\ call.fn = "getMultilinearLDE" /\ Len(input.data) = 3
  /\ call.point = <<1, 0>>
  /\ input.data[3] # input.data[2]
  /\ call.result = Ok(input.data[3])

\* ---------------------------------------------------------------- C11
\* C11 (memoized node exactness): for every non-empty message of n
\* characters and every index i < n, getMemoizedMultilinearLagrange at
\* toBinary(i, ceil(log2 n)) returns the code of the i-th character.
C11_MemoizedNodeExact ==
  \A i \in 0..(Len(input.data) - 1) :
    (/\ call.fn = "getMemoizedMultilinearLagrange"
     /\ call.point = toBinary(i, CeilLog2(Len(input.data))))
      => call.result = Ok(input.data[i + 1] % order)

\* ---------------------------------------------------------------- C12
\* C12 (linear extension of a 2-entry table): for every table [a, b] and
\* every field point r, each univariate extension at r and each multilinear
\* extension at [r] equals a + (b - a) * r; the table [104, 105] (message
\* "hi") gives 106, 107, 108, 109 at r = 2, 3, 4, 5.
C12_LinearExtension ==
  (call.fn # "none" /\ Len(input.data) = 2 /\ Len(call.point) = 1)
    => LET a == input.data[1]
           b == input.data[2]
           r == call.point[1]
       IN /\ call.result = Ok((a + (b - a) * r) % order)
          /\ (a = 104 /\ b = 105 /\ r \in 2..5) => call.result = Ok(104 + r)

\* the message "hi" was extended to the point 5, which gave 109
C12_Witness ==
  /\ input = [kind |-> "message", data |-> <<104, 105>>]
  /\ call.fn \in {"getUnivariateLagrange", "getMultilinearLagrange"}
  /\ call.point = <<5>>
  /\ call.result = Ok(109)

\* ---------------------------------------------------------------- C13
\* C13 (round overflow): once a Prover for v >= 1 variables has returned v
\* round polynomials, the next call of getRoundJPolynomial, with or without a
\* challenge, fails with the round-overflow error.
C13_RoundOverflow ==
  [][(/\ last'.op = "getRoundJPolynomial"
      /\ prover.v >= 1
      /\ run.j = prover.v)
     => /\ ~last'.ok
        /\ last'.err = "RoundOverflow"]_vars

\* ---------------------------------------------------------------- C14
\* C14 (unexpected challenge): a call of getRoundJPolynomial with a challenge
\* while the Prover (v >= 1) is in round 1, no challenge fixed yet, fails with
\* the unexpected-challenge error.
C14_UnexpectedChallenge ==
  [][(/\ last'.op = "getRoundJPolynomial"
      /\ prover.v >= 1
      /\ Len(prover.r) = 0
      /\ Len(last'.arg) = 1)
     => /\ ~last'.ok
        /\ last'.err = "UnexpectedChallenge"]_vars

\* ---------------------------------------------------------------- C15
\* C15 (missing challenge): once the round-1 polynomial has been returned
\* and a later round remains, a call of getRoundJPolynomial without a
\* challenge fails with the missing-challenge error.
C15_MissingChallenge ==
  [][(/\ last'.op = "getRoundJPolynomial"
      /\ run.j >= 1
      /\ run.j < prover.v
      /\ Len(last'.arg) = 0)
     => /\ ~last'.ok
        /\ last'.err = "MissingChallenge"]_vars

\* ---------------------------------------------------------------- C16
\* C16 (fail fast without mutation): a call of getRoundJPolynomial that fails
\* with a round-overflow or wrong-argument error leaves r as it was.
C16_FailFast ==
  [][(/\ last'.op = "getRoundJPolynomial"
      /\ ~last'.ok
      /\ last'.err \in {"RoundOverflow", "UnexpectedChallenge",
                        "MissingChallenge"})
     => prover'.r = prover.r]_vars

\* ---------------------------------------------------------------- C17
RECURSIVE C17_SumOver(_, _, _, _)
\* the sum of MLE(g, prefix \o b) over the vertices b of {0,1}^d numbered
\* i .. 2^d - 1
C17_SumOver(g, prefix, d, i) ==
  IF i >= Pow2(d) THEN 0
  ELSE (getMultilinearLDE(g, prefix \o C10_Vertex(i, d)).val
        + C17_SumOver(g, prefix, d, i + 1)) % order

\* C17 (rounds 2..v of the sum-check.ts Prover): once the polynomials of the
\* rounds 1..j-1 have been returned, j in 2..v, a call of getRoundJPolynomial
\* with a challenge appends the challenge to r and returns the round-j
\* polynomial [sum_b MLE(g, [r, 0, b]), sum_b MLE(g, [r, 1, b])].
C17_SumCheckProverRound ==
  [][(/\ last'.op = "getRoundJPolynomial"
      /\ run.j >= 1
      /\ run.j < prover.v
      /\ Len(prover.r) = run.j - 1
      /\ Len(prover.g) > Pow2(prover.v - 1)
      /\ Len(last'.arg) = 1)
     => /\ last'.ok
        /\ prover'.r = Append(prover.r, last'.arg[1])
        /\ last'.ret =
             <<C17_SumOver(prover.g, prover'.r \o <<0>>,
                           prover.v - Len(prover'.r) - 1, 0),
               C17_SumOver(prover.g, prover'.r \o <<1>>,
                           prover.v - Len(prover'.r) - 1, 0)>>]_vars

\* ---------------------------------------------------------------- C18
\* C18 (degree check): in every round j <= v a call of verifyRoundJPolynomial
\* with a g_j of more than 2 entries is rejected with the degree error, also
\* when g_j(0) + g_j(1) equals the expected value, and records no challenge
\* and no polynomial.
C18_DegreeCheck ==
  [][(/\ last'.op = "verifyRoundJPolynomial"
      /\ Len(verifier.r) < verifier.v
      /\ Len(last'.arg) > 2)
     => /\ ~last'.ok
        /\ last'.err = "Degree"
        /\ verifier' = verifier]_vars

\* a 3-entry polynomial whose g_j(0) + g_j(1) is the proposed sum was
\* rejected in round 1
C18_Witness ==
  /\ last.op = "verifyRoundJPolynomial" /\ last.err = "Degree"
  /\ Len(last.arg) = 3
  /\ verifier.v >= 1 /\ verifier.r = <<>> /\ verifier.polynomials = <<>>
  /\ (last.arg[1] + last.arg[2]) % order = verifier.proposedSum

\* ---------------------------------------------------------------- C19
\* C19 (too many rounds): after v rounds have been accepted every further
\* call of verifyRoundJPolynomial is rejected with the too-many-rounds error,
\* whatever g_j is passed, and leaves r and the stored polynomials unchanged.
C19_TooManyRounds ==
  [][(/\ last'.op = "verifyRoundJPolynomial"
      /\ Len(verifier.r) = verifier.v)
     => /\ ~last'.ok
        /\ last'.err = "TooManyRounds"
        /\ verifier' = verifier]_vars

\* after two accepted rounds a third polynomial that continues the transcript
\* consistently was rejected
C19_Witness ==
  /\ last.op = "verifyRoundJPolynomial" /\ last.err = "TooManyRounds"
  /\ verifier.v = 2 /\ Len(verifier.r) = 2 /\ Len(verifier.polynomials) = 2
  /\ Len(last.arg) = 2
  /\ C4_S(last.arg) = C4_Expected(verifier)

\* ---------------------------------------------------------------- C20
\* C20 (incomplete rounds): a call of verifyOracleQueryOfG while fewer than v
\* rounds have been accepted fails with the incomplete-rounds error for every
\* g.
C20_IncompleteRounds ==
  [][(/\ last'.op = "verifyOracleQueryOfG"
      /\ Len(verifier.r) < verifier.v)
     => /\ ~last'.ok
        /\ last'.err = "IncompleteRounds"
        /\ verifier' = verifier]_vars

\* the oracle was queried after one of two rounds with a table whose
\* 1-dimensional extension at r_1 equals g_1(r_1)
C20_Witness ==
  /\ last.op = "verifyOracleQueryOfG" /\ last.err = "IncompleteRounds"
  /\ verifier.v = 2 /\ Len(verifier.r) = 1
  /\ Len(last.arg) = 2
  /\ getMultilinearLDE(last.arg, verifier.r) =
       getUnivariateLDE(verifier.polynomials[1], verifier.r[1])

\* ---------------------------------------------------------------- C21
\* C21 (rejection is final): once verifyRoundJPolynomial or
\* verifyOracleQueryOfG has rejected with a degree, sum-mismatch or
\* oracle-mismatch error, no later call on the same Verifier succeeds.
C21_RejectionIsFinal ==
  [][(/\ run.pc = "rejected"
      /\ last'.op \in {"verifyRoundJPolynomial", "verifyOracleQueryOfG"})
     => ~last'.ok]_vars

\* ---------------------------------------------------------------- C22
\* C22 (single-use session): once verifyOracleQueryOfG has accepted, every
\* further call of verifyRoundJPolynomial or verifyOracleQueryOfG on the
\* session is rejected.
C22_SingleUse ==
  [][(/\ run.pc = "done"
      /\ last'.op \in {"verifyRoundJPolynomial", "verifyOracleQueryOfG"})
     => ~last'.ok]_vars

\* ---------------------------------------------------------------- C23
\* r and the stored polynomials have the same length, at most v
C23_Lengths(ver) ==
  /\ Len(ver.r) = Len(ver.polynomials)
  /\ Len(ver.r) <= ver.v

\* C23 (Verifier progress invariant): r and the stored polynomials always
\* have the same length, at most v; an accepted round appends exactly the
\* returned challenge and the received g_j and changes no earlier entry; a
\* rejected call changes nothing; the oracle check is evaluated only when the
\* length is exactly v.
C23_Progress ==
  [][/\ C23_Lengths(verifier) /\ C23_Lengths(verifier')
     /\ verifier'.v = verifier.v /\ verifier'.proposedSum = verifier.proposedSum
     /\ (last'.op = "verifyRoundJPolynomial" /\ last'.ok)
          => /\ verifier'.r = Append(verifier.r, last'.ret[1])
             /\ verifier'.polynomials = Append(verifier.polynomials, last'.arg)
     /\ ~last'.ok => verifier' = verifier
     /\ (last'.op = "verifyOracleQueryOfG" /\ last'.err # "IncompleteRounds")
          => Len(verifier.r) = verifier.v]_vars

\* two rounds with different polynomials and different challenges were
\* accepted and an oracle query was then evaluated and rejected
C23_Witness ==
  /\ last.op = "verifyOracleQueryOfG" /\ last.err = "OracleMismatch"
  /\ verifier.v = 2 /\ Len(verifier.r) = 2 /\ Len(verifier.polynomials) = 2
  /\ verifier.r[1] # verifier.r[2]
  /\ verifier.polynomials[1] # verifier.polynomials[2]

\* ---------------------------------------------------------------- C24
\* C24 (equivalent verifier variants): for the same v, g, proposed sum,
\* messages and challenges, the recursive Verifier accepts the whole
\* transcript if and only if the iterative Verifier accepts it.
C24_VariantsAgree ==
  (/\ run.pc \in {"accepted", "rejected"}
   /\ peer.pc \in {"accepted", "rejected"})
    => (run.pc = "accepted" <=> peer.pc = "accepted")

\* ---------------------------------------------------------------- C25
\* C25 (arity check): constructing a Prover, or the Verifier of
\* sum-check-recursive.ts, fails if and only if |g| > 2^v; every g with
\* |g| <= 2^v is accepted and stored unchanged together with v.
C25_ArityCheck ==
  /\ last.op = "new Prover" =>
       /\ last.ok <=> Len(input.data) <= Pow2(input.v)
       /\ ~last.ok => last.err = "InvalidArity" /\ prover = NoProver
       /\ last.ok => prover = [v |-> input.v, g |-> input.data, r |-> <<>>]
  /\ last.op = "new Verifier" =>
       /\ last.ok <=> Len(input.data) <= Pow2(input.v)
       /\ ~last.ok => last.err = "InvalidArity" /\ peer = NoPeer
       /\ last.ok => peer.obj = [v |-> input.v, g |-> input.data, r |-> <<>>,
                                 proposedSum |-> input.proposedSum]

\* a Prover was constructed on a table of exactly 2^v entries, v = 2, not all
\* equal
C25_Witness ==
  /\ last.op = "new Prover" /\ last.ok
  /\ input.v = 2 /\ Len(input.data) = 4
  /\ input.data[1] # input.data[4]
  /\ prover.g = input.data /\ prover.v = 2

\* ---------------------------------------------------------------- C26
\* C26 (empty input): getUnivariateLDE, getMultilinearLDE,
\* getUnivariateLagrange, getMultilinearLagrange,
\* getMemoizedMultilinearLagrange and getReedSolomon each fail with the
\* empty-input error when the value table or the message is empty, for every
\* evaluation point, and return no value.
C26_EmptyInput ==
  (call # NoCall /\ Len(input.data) = 0) =>
    /\ ~call.result.ok
    /\ call.result.err = (IF input.kind = "values" THEN "EmptyValues"
                          ELSE "EmptyMessage")

\* getMemoizedMultilinearLagrange was called on the empty message with a
\* one-coordinate point and failed
C26_Witness ==
  /\ call.fn = "getMemoizedMultilinearLagrange"
  /\ input.data = <<>>
  /\ Len(call.point) = 1
  /\ call.result.err = "EmptyMessage"

\* ---------------------------------------------------------------- C27
\* C27 (dimension mismatch): for every non-empty table of n values,
\* getMultilinearLDE, getMultilinearLagrange and
\* getMemoizedMultilinearLagrange fail with the dimension-mismatch error
\* whenever the length of r differs from d = ceil(log2 n), for r both too
\* short and too long, and never return a value in that case.
C27_DimensionMismatch ==
  (/\ call.fn \in {"getMultilinearLDE", "getMultilinearLagrange",
                   "getMemoizedMultilinearLagrange"}
   /\ Len(input.data) > 0
   /\ Len(call.point) # CeilLog2(Len(input.data))) =>
    (~call.result.ok /\ call.result.err = "DimensionMismatch")

\* getMultilinearLagrange was called on a message of three characters with a
\* point of one coordinate (too short) and failed
C27_Witness ==
  /\ call.fn = "getMultilinearLagrange"
  /\ Len(input.data) = 3
  /\ Len(call.point) = 1
  /\ call.result.err = "DimensionMismatch"

\* ---------------------------------------------------------------- C29
RECURSIVE C29_Power(_, _)
\* r^i in the field
C29_Power(r, i) == IF i = 0 THEN 1 % order ELSE (r * C29_Power(r, i - 1)) % order

RECURSIVE C29_Sum(_, _, _)
\* the sum over the first n characters of code(message[i]) * r^i
C29_Sum(message, r, n) ==
  IF n = 0 THEN 0
  ELSE (C29_Sum(message, r, n - 1)
          + (message[n] % order) * C29_Power(r, n - 1)) % order

\* C29 (Reed-Solomon evaluation): for every non-empty message and field
\* element r, getReedSolomon(message, r) equals the sum over i of
\* code(message[i]) * r^i; in particular for a one-character message it
\* returns that character's code for every r.
C29_ReedSolomon ==
  (call.fn = "getReedSolomon" /\ Len(input.data) > 0) =>
    /\ call.result = Ok(C29_Sum(input.data, call.point[1], Len(input.data)))
    /\ Len(input.data) = 1 => call.result = Ok(input.data[1])

\* getReedSolomon was evaluated on a message of three characters, not all the
\* same, at a point other than 0 and 1
C29_Witness ==
  /\ call.fn = "getReedSolomon"
  /\ Len(input.data) = 3
  /\ input.data[1] # input.data[3]
  /\ call.point[1] > 1
  /\ call.result.ok

\* ---------------------------------------------------------------- C30
\* C30 (final round): in round j = v (no free suffix) getRoundJPolynomial of
\* sum-check-prover.ts returns the single-term pair
\* [MLE(g, [r_1..r_{v-1}, 0]), MLE(g, [r_1..r_{v-1}, 1])] and does not fail,
\* for every v >= 1 including v = 1 where round 1 is the final round.
C30_FinalRound ==
  [][(/\ last'.op = "getRoundJPolynomial"
      /\ prover.v >= 1
      /\ Len(prover'.r) = prover.v - 1
      /\ (last'.arg = <<>>) <=> (prover.v = 1))
     => /\ last'.ok
        /\ getMultilinearLDE(prover.g, prover'.r \o <<0>>).ok
        /\ getMultilinearLDE(prover.g, prover'.r \o <<1>>).ok
        /\ last'.ret = <<getMultilinearLDE(prover.g, prover'.r \o <<0>>).val,
                         getMultilinearLDE(prover.g, prover'.r \o <<1>>).val>>]_vars

\* ---------------------------------------------------------------- C28
\* one call of a session running alone: the call its caller makes next, with
\* the given challenge if that call draws one
C28_Call(s, rnd) ==
  CASE s.run.pc = "getProposedSum" -> SessGetProposedSum(s)
    [] s.run.pc = "prove" -> SessProve(s)
    [] s.run.pc = "verify" -> SessVerify(s, rnd)
    [] s.run.pc = "oracle" -> SessOracle(s)
    [] OTHER -> s

C31_AllVertices(vectors, dimension) ==
  /\ Len(vectors) = Pow2(dimension)
  /\ \A i \in 1..Len(vectors) :
       vectors[i] = [k \in 1..dimension |-> Field(C10_Vertex(i - 1, dimension)[k])]

\* C31 (binary vector generation): Prover.getBinaryVectors(dimension) returns
\* exactly 2^dimension vectors, each of length dimension with entries 0 or 1,
\* the i-th being the binary representation of i padded with leading zeros,
\* for every dimension >= 0 (for dimension 0: exactly one vector, the empty
\* one). The dimensions are those of the call getProposedSum makes.
C31_BinaryVectors ==
  last.op = "getProposedSum" =>
    /\ C31_AllVertices(getBinaryVectors(prover.v), prover.v)
    /\ C31_AllVertices(SumCheck_getBinaryVectors(prover.v), prover.v)

\* ---------------------------------------------------------------- C32
RECURSIVE C32_Product(_, _, _)
\* the product over the first k coordinates of w_k*r_k + (1 - w_k)*(1 - r_k)
C32_Product(w, r, k) ==
  IF k = 0 THEN 1 % order
  ELSE (C32_Product(w, r, k - 1)
          * (w[k] * r[k] + (1 - w[k]) * (order + 1 - r[k]))) % order

\* C32 (memoized basis table): for every r of length d >= 1,
\* memoizedLagrangeBasis(r) has exactly 2^d entries and entry i equals the
\* product over k of (w_k*r_k + (1-w_k)*(1-r_k)) where w is the d-bit binary
\* encoding of i with the most significant bit first, i.e. the same value and
\* order as the per-vertex basis of the naive evaluator. The points are those
\* drawn for the calls of getMemoizedMultilinearLagrange.
C32_MemoizedBasis ==
  (call.fn = "getMemoizedMultilinearLagrange" /\ Len(call.point) >= 1) =>
    LET r == call.point
        d == Len(r)
        basis == memoizedLagrangeBasis(r)
        interpolatingSet == generateBinaryVertices(d)
    IN /\ basis.ok
       /\ Len(basis.val) = Pow2(d)
       /\ \A i \in 0..(Pow2(d) - 1) :
            /\ basis.val[i + 1] = C32_Product(C10_Vertex(i, d), r, d)
            /\ Ok(basis.val[i + 1])
                 = getMultilinearLagrangeBasisAt(interpolatingSet[i + 1],
                                                 interpolatingSet, r)

\* getMemoizedMultilinearLagrange built the table for a point of two
\* coordinates, neither of them 0 or 1, and returned a value
C32_Witness ==
  /\ call.fn = "getMemoizedMultilinearLagrange"
  /\ call.result.ok
  /\ Len(call.point) = 2
  /\ call.point[1] > 1 /\ call.point[2] > 1
  /\ call.point[1] # call.point[2]

\* ---------------------------------------------------------------- C33
\* C33 (no division by zero): in the general path of getUnivariateLDE (r not
\* one of the nodes 0..n-1), every divisor nodes[i] - nodes[j] with i # j is
\* a nonzero field element, so the evaluation never fails with a
\* division-by-zero error, for every table whose length n does not exceed
\* the field order.
C33_NoDivisionByZero ==
  (/\ call.fn = "getUnivariateLDE"
   /\ Len(input.data) >= 1
   /\ Len(input.data) <= order
   /\ ~FieldLessThan(call.point[1], Len(input.data))) =>
    /\ \A i, j \in 0..(Len(input.data) - 1) :
         i # j => FieldSub(Field(i), Field(j)) # 0
    /\ call.result.ok
    /\ call.result.err # "DivisionByZero"

\* getUnivariateLDE took the general path on a table of three entries
C33_Witness ==
  /\ call.fn = "getUnivariateLDE"
  /\ Len(input.data) = 3
  /\ call.point[1] >= 3
  /\ call.result.ok

\* ---------------------------------------------------------------- C34
\* C34: toBinary(num, bitLength) returns an array of bitLength digits 0/1
\* holding the binary digits of num with the least significant bit first
\* (padded with zeros to bitLength).
C34_LeastSignificantFirst ==
  call.fn = "toBinary" =>
    LET num == input.data[1]
        bitLength == input.data[2]
    IN /\ call.result.ok
       /\ Len(call.result.val) = bitLength
       /\ \A k \in 1..bitLength :
            call.result.val[k] = (num \div Pow2(k - 1)) % 2

\* ---------------------------------------------------------------- C35
\* C35 (challenge prefix relation): in an honest run, whenever the Prover
\* computes the round-j polynomial its vector r equals the first j-1
\* challenges of the Verifier's r in the same order; r is empty in round 1,
\* the Prover ends with v-1 fixed challenges and the Verifier with v.
C35_ChallengePrefix ==
  ~run.corrupted =>
    /\ Len(prover.r) <= Len(verifier.r)
    /\ prover.r = SubSeq(verifier.r, 1, Len(prover.r))
    /\ last.op = "getRoundJPolynomial" =>
         /\ last.ok
         /\ Len(prover.r) = run.j - 1
         /\ prover.r = verifier.r
         /\ run.j = 1 => prover.r = <<>>
    /\ run.pc \in {"oracle", "done"} =>
         /\ Len(prover.r) = prover.v - 1
         /\ Len(verifier.r) = prover.v

\* an honest run of three rounds has ended: the Prover holds the first two
\* challenges, which differ, and the Verifier all three
C35_Witness ==
  /\ ~run.corrupted
  /\ run.pc = "done"
  /\ Len(verifier.r) = 3
  /\ verifier.r[1] # verifier.r[2]
  /\ prover.r = <<verifier.r[1], verifier.r[2]>>

\* ---------------------------------------------------------------- C36
\* p(0) + p(1) for a stored polynomial p
C36_SumAt01(p) ==
  (getUnivariateLDE(p, 0).val + getUnivariateLDE(p, 1 % order).val) % order

\* C36 (acceptance implies the whole consistency chain): whenever
\* verifyOracleQueryOfG accepts, the stored history satisfies
\* g_1(0)+g_1(1) = proposedSum, g_j(0)+g_j(1) = UnivariateLDE(g_{j-1}, r_{j-1})
\* for every j in 2..v, every stored g_j has at most 2 entries, and
\* UnivariateLDE(g_v, r_v) = MultilinearLDE(g, r).
C36_ConsistencyChain ==
  (last.op = "verifyOracleQueryOfG" /\ last.ok) =>
    LET v == verifier.v
        p == verifier.polynomials
        r == verifier.r
    IN /\ v >= 1
       /\ Len(p) = v /\ Len(r) = v
       /\ \A j \in 1..v : Len(p[j]) >= 1 /\ Len(p[j]) <= 2
       /\ C36_SumAt01(p[1]) = verifier.proposedSum
       /\ \A j \in 2..v :
            C36_SumAt01(p[j]) = getUnivariateLDE(p[j - 1], r[j - 1]).val
       /\ getMultilinearLDE(last.arg, r).ok
       /\ getUnivariateLDE(p[v], r[v]).val = getMultilinearLDE(last.arg, r).val

\* the oracle query was accepted after two rounds whose polynomials are not
\* constant and whose first challenge is neither 0 nor 1
C36_Witness ==
  /\ last.op = "verifyOracleQueryOfG" /\ last.ok
  /\ verifier.v = 2
  /\ Len(verifier.polynomials[1]) = 2
  /\ verifier.polynomials[1][1] # verifier.polynomials[1][2]
  /\ verifier.r[1] > 1

\* ---------------------------------------------------------------- C37
\* a Verifier for one variable accepts the message g_1 under the challenge
\* r_1 and then the oracle query on g
C37_Accepts(proposedSum, g_1, r_1, g) ==
  LET out == verifyRoundJPolynomial(NewVerifier(proposedSum, 1), g_1, r_1)
  IN out.res.ok /\ verifyOracleQueryOfG(out.obj, g).ok

\* C37 (one-round soundness bound): for v = 1, every 2-entry table g, every
\* proposed sum different from g[0] + g[1] and every message g_1 of at most 2
\* entries, at most one value of the challenge r_1 in the field leads the
\* Verifier to accept (round check followed by oracle check on g). The
\* messages are those a Verifier for one variable has accepted in round 1.
C37_OneRoundSoundness ==
  (verifier.v = 1 /\ Len(verifier.polynomials) = 1) =>
    \A g \in [1..2 -> FieldElems] :
      (g[1] + g[2]) % order # verifier.proposedSum =>
        Cardinality({r_1 \in FieldElems :
                       C37_Accepts(verifier.proposedSum,
                                   verifier.polynomials[1], r_1, g)}) <= 1

\* a Verifier for one variable accepted the oracle query although the
\* proposed sum is not the sum of the table
C37_Witness ==
  /\ last.op = "verifyOracleQueryOfG" /\ last.ok
  /\ verifier.v = 1
  /\ Len(last.arg) = 2
  /\ (last.arg[1] + last.arg[2]) % order # verifier.proposedSum
  /\ C37_Accepts(verifier.proposedSum, verifier.polynomials[1],
                 verifier.r[1], last.arg)

\* ---------------------------------------------------------------- C38
\* C38 (the 2-point table represents the restricted polynomial everywhere):
\* for every v >= 1, g with 2^(v-1) < |g| <= 2^v, every prefix r of j-1 field
\* elements and every field element x, UnivariateLDE(g_j, x) for the honest
\* g_j returned by getRoundJPolynomial equals the sum over all b in
\* {0,1}^(v-j) of MultilinearLDE(g, [r, x, b]), not only at x = 0 and x = 1.
C38_RestrictedPolynomial ==
  (/\ last.op = "getRoundJPolynomial"
   /\ last.ok
   /\ ~run.corrupted
   /\ prover.v >= 1
   /\ Len(prover.g) > Pow2(prover.v - 1)) =>
    \A x \in FieldElems :
      getUnivariateLDE(last.ret, x)
        = Ok(C17_SumOver(prover.g, prover.r \o <<x>>,
                         prover.v - Len(prover.r) - 1, 0))

\* the Prover returned the polynomial of round 1 of 2 for a table of three
\* entries, and the polynomial is not constant
C38_Witness ==
  /\ last.op = "getRoundJPolynomial" /\ last.ok
  /\ ~run.corrupted
  /\ prover.v = 2 /\ Len(prover.g) = 3
  /\ prover.r = <<>>
  /\ last.ret[1] # last.ret[2]

\* ---------------------------------------------------------------- C39
\* C39 (a rejected round leaves the iterative Verifier untouched): when
\* verifyRoundJPolynomial throws for any reason (too many rounds, degree,
\* empty g_j, sum mismatch), r, the stored polynomials, v and proposedSum are
\* unchanged and no challenge was drawn (none is returned, and the call
\* fails whatever value the challenge source would have given), so the
\* number of challenges issued always equals the number of polynomials
\* accepted.
C39_RejectionLeavesVerifier ==
  [][/\ (last'.op = "verifyRoundJPolynomial" /\ ~last'.ok) =>
          /\ verifier' = verifier
          /\ last'.ret = <<>>
          /\ \A rnd \in FieldElems :
               LET out == verifyRoundJPolynomial(verifier, last'.arg, rnd)
               IN ~out.res.ok /\ out.res.err = last'.err /\ out.obj = verifier
     /\ Len(verifier'.r) = Len(verifier'.polynomials)]_vars

\* the message of round 2 was rejected for its sum: the Verifier still holds
\* one challenge and one polynomial
C39_Witness ==
  /\ last.op = "verifyRoundJPolynomial" /\ ~last.ok
  /\ last.err = "SumMismatch"
  /\ verifier.v = 2
  /\ Len(verifier.r) = 1 /\ Len(verifier.polynomials) = 1

====
